---- MODULE Spec2Model ----
(***************************************************************************)
(* Opportunity detection pipeline of periscope: the StrategyManager, the   *)
(* ArbitrageStrategy with its price cache and the SandwichStrategy.        *)
(*                                                                         *)
(* Numbers of the program are IEEE doubles.  They are modelled as exact    *)
(* rationals [n, d] extended with +Infinity (1/0), -Infinity (-1/0) and    *)
(* NaN (0/0), so that a division by zero and the comparisons with NaN      *)
(* behave as they do in the program.  Rounding is not modelled.            *)
(***************************************************************************)
EXTENDS Integers, Sequences, FiniteSets, TLC

(***************************************************************************)
(* Bounds of the model.                                                    *)
(***************************************************************************)
\* the store never holds more entries than this (analyzePacket is disabled beyond)
MaxStore == 2
\* nor does the history of a strategy
MaxHist == 2
\* the limits tried by the getOpportunities query are 0..MaxLimit
MaxLimit == 1
\* the longest list of transactions of a packet
MaxTxs == 3
\* the most opportunities the store holds in the notification scenarios
MaxNotifyStore == 21
\* the most swaps of 200 TON delivered in the notification scenarios
MaxLargeSwaps == 1
\* the most streams the subscription scenarios create
MaxStreams == 3
\* the capacity of a venue's price cache in the capacity scenarios
SmallCacheSize == 2
\* the size the set of processed keys is cut back to in the deduplication
\* scenarios
SmallProcessedLimit == 2

(***************************************************************************)
(* Numbers.                                                                *)
(***************************************************************************)
RECURSIVE GCD(_, _)
GCD(a, b) == IF b = 0 THEN a ELSE GCD(b, a % b)

AbsInt(a) == IF a < 0 THEN -a ELSE a

SignInt(a) == IF a < 0 THEN -1 ELSE IF a > 0 THEN 1 ELSE 0

\* the number n/d in lowest terms with d >= 0; d = 0 gives +-Infinity or NaN
R(n, d) ==
  IF d = 0 THEN [n |-> SignInt(n), d |-> 0]
  ELSE LET g == GCD(AbsInt(n), AbsInt(d))
           s == SignInt(d)
       IN  [n |-> (s * n) \div g, d |-> (s * d) \div g]

NaN == [n |-> 0, d |-> 0]
Zero == R(0, 1)
One == R(1, 1)

IsNaN(a) == a.n = 0 /\ a.d = 0
IsFinite(a) == a.d # 0

Add(a, b) ==
  IF a.d = 0 /\ b.d = 0
  THEN IF a.n = b.n THEN a ELSE NaN
  ELSE R(a.n * b.d + b.n * a.d, a.d * b.d)

Neg(a) == [n |-> -a.n, d |-> a.d]
Sub(a, b) == Add(a, Neg(b))
Mul(a, b) == R(a.n * b.n, a.d * b.d)

\* 1/b; 1/0 is +Infinity (the sign of zero is not modelled)
Inv(b) ==
  IF b.n = 0 THEN (IF b.d = 0 THEN NaN ELSE [n |-> 1, d |-> 0])
  ELSE IF b.n > 0 THEN [n |-> b.d, d |-> b.n]
  ELSE [n |-> -b.d, d |-> -b.n]

Div(a, b) == Mul(a, Inv(b))

\* a < b as the program evaluates it: FALSE when either side is NaN
Lt(a, b) ==
  IF IsNaN(a) \/ IsNaN(b) THEN FALSE
  ELSE IF a.d = 0 /\ b.d = 0 THEN a.n < b.n
  ELSE a.n * b.d < b.n * a.d

Gt(a, b) == Lt(b, a)
Le(a, b) == ~IsNaN(a) /\ ~IsNaN(b) /\ ~Lt(b, a)
Ge(a, b) == Le(b, a)

\* Math.min of two numbers: NaN when either is NaN
MathMin(a, b) ==
  IF IsNaN(a) \/ IsNaN(b) THEN NaN
  ELSE IF Lt(b, a) THEN b ELSE a

\* Math.abs
MathAbs(a) == IF a.n < 0 THEN Neg(a) ELSE a

\* JavaScript truthiness of a number: 0 and NaN are falsy
Truthy(a) == a.n # 0

(***************************************************************************)
(* Optional values: <<>> is absent, <<v>> is present.                      *)
(***************************************************************************)
None == <<>>
Some(v) == <<v>>
IsSome(o) == Len(o) = 1
Val(o) == o[1]

(***************************************************************************)
(* DEX registry (config/dex-config).                                       *)
(***************************************************************************)
\* Object.keys(dexConfigs), in insertion order
SupportedDexes == <<"DeDust", "Ston.fi", "Megaton">>

\* Object.keys(dexConfigs[dex].tokenConfigs): the same three tokens for every DEX
SupportedTokens(dex) == <<"USDT", "USDC", "ETH">>

Dexes == {SupportedDexes[i] : i \in 1..Len(SupportedDexes)}
Tokens == {"USDT", "USDC", "ETH"}
PairOf(token) == "TON/" \o token
Pairs == {PairOf(t) : t \in Tokens}

\* only the tokens of DeDust carry a swapOpCode ('01e18801', the same for all)
HasTokenSwapOpCode(dex, token) == dex = "DeDust"

\* 10 ^ getTokenDecimals(dex, token), in thousands: 10^6 -> 1000, 10^18 -> 10^15
\* (ETH is never decoded from an outMsg: the first token with the swap op code wins)
DecimalsUnitK(dex, token) == IF token \in {"USDT", "USDC"} THEN 1000 ELSE 1000000000

(***************************************************************************)
(* Transactions.  A hex payload is represented by what the program's       *)
(* substring searches find in it.  A 16-digit field read by parseInt is an *)
(* integer: its value in thousands (500 stands for 500000), FieldShort     *)
(* when the field lies beyond the end of the payload, FieldHuge when the   *)
(* value is not below 1e18.                                                *)
(***************************************************************************)
FieldShort == -1
FieldHuge == -2

\* the candidate offsets after the swap op code
ArbOffsets == <<24, 32, 40, 48, 56, 64>>
SandwichOffsets == <<8, 16, 24, 32>>
AllOffsets == {8, 16, 24, 32, 40, 48, 56, 64}

\* priceValue > 0 && priceValue < 1e18
FieldValid(f) == f > 0

LastValidOffset(fields, offsets, i) ==
  IF \E k \in i..Len(offsets) :
       fields[offsets[k]] # FieldShort /\ FieldValid(fields[offsets[k]])
  THEN offsets[CHOOSE k \in i..Len(offsets) :
                 /\ fields[offsets[k]] # FieldShort /\ FieldValid(fields[offsets[k]])
                 /\ \A m \in (k + 1)..Len(offsets) :
                      ~(fields[offsets[m]] # FieldShort /\ FieldValid(fields[offsets[m]]))]
  ELSE 0

\* first offset of the list, in order, whose field is inside the payload and valid
RECURSIVE FirstValidOffset(_, _, _)
FirstValidOffset(fields, offsets, i) ==
  IF i > Len(offsets) THEN 0
  ELSE IF fields[offsets[i]] # FieldShort /\ FieldValid(fields[offsets[i]])
       THEN offsets[i]
       ELSE FirstValidOffset(fields, offsets, i + 1)

\* tx is null or undefined
NullTx == [null |-> TRUE]

\* a transaction object:
\*   addr    the DEX whose contract address occurs in stdSmcAddress, or "none"
\*   outMsg  outMsgs[0] when it is a Buffer: [dexOp, swapOp, fields]
\*   data    the data field: [dexOp, token, priceNano], token being the first
\*           token of the DEX whose address / pool id / token id occurs in it
Tx(hash, addr, outMsg, data) ==
  [null |-> FALSE, hash |-> hash, addr |-> addr, outMsg |-> outMsg, data |-> data]

OutMsg(dexOp, swapOp, fields) == [dexOp |-> dexOp, swapOp |-> swapOp, fields |-> fields]
DataHex(dexOp, token, priceNano) == [dexOp |-> dexOp, token |-> token, priceNano |-> priceNano]

\* the fields after the op code: f at offset o, valid amounts nowhere else,
\* the payload ending after offset o
FieldsAt(o, f) == [x \in AllOffsets |-> IF x = o THEN f ELSE IF x < o THEN 0 ELSE FieldShort]

\* ArbitrageStrategy.isDexTransaction, for a transaction that is an object
IsDexTransaction(tx) ==
  \/ tx.addr # "none"
  \/ IsSome(tx.outMsg) /\ Val(tx.outMsg).dexOp
  \/ IsSome(tx.data) /\ Val(tx.data).dexOp

\* the DEX identified by extractDexInfo: by address, else by op code (every DEX
\* has the op code 'b5ee9c72', so the first one of the registry matches)
IdentifyDex(tx) ==
  IF tx.addr # "none" THEN tx.addr
  ELSE IF IsSome(tx.outMsg) /\ Val(tx.outMsg).dexOp THEN SupportedDexes[1]
  ELSE IF IsSome(tx.data) /\ Val(tx.data).dexOp THEN SupportedDexes[1]
  ELSE "none"

\* the simulated price: 0.5 + random * 0.1 for USDT and USDC,
\* 0.0003 + random * 0.0001 for ETH
SimulatedPrice(pair, rnd) ==
  IF pair \in {"TON/USDT", "TON/USDC"} THEN Add(R(1, 2), Mul(rnd, R(1, 10)))
  ELSE IF pair = "TON/ETH" THEN Add(R(3, 10000), Mul(rnd, R(1, 10000)))
  ELSE Add(One, Mul(rnd, R(1, 5)))

\* extractDexInfo, from outMsgs[0]: the pair of the first token carrying a swap
\* op code that occurs, and the price decoded at offset off (0: at no offset)
DexInfoFromOutMsg(tx, dex, off) ==
  IF IsSome(tx.outMsg) /\ Val(tx.outMsg).swapOp
     /\ HasTokenSwapOpCode(dex, SupportedTokens(dex)[1])
  THEN [pair |-> Some(PairOf(SupportedTokens(dex)[1])),
        price |-> IF off # 0
                  THEN Some(R(Val(tx.outMsg).fields[off],
                              DecimalsUnitK(dex, SupportedTokens(dex)[1])))
                  ELSE None]
  ELSE [pair |-> None, price |-> None]

\* extractDexInfo, from the data field, when pair or price is still missing
DexInfoFromData(tx, found) ==
  IF (~IsSome(found.pair) \/ ~IsSome(found.price) \/ ~Truthy(Val(found.price)))
     /\ IsSome(tx.data) /\ Val(tx.data).token # "none"
  THEN [pair |-> Some(PairOf(Val(tx.data).token)),
        price |-> IF Val(tx.data).priceNano = FieldShort THEN Some(NaN)
                  ELSE Some(R(Val(tx.data).priceNano, 1000000))]
  ELSE found

\* extractDexInfo, the end: the simulated price when none was decoded
DexInfoResult(dex, pair, price, rnd) ==
  IF IsSome(price) /\ Truthy(Val(price))
  THEN Some([dex |-> dex, tokenPair |-> pair, price |-> Val(price)])
  ELSE IF Truthy(SimulatedPrice(pair, rnd))
       THEN Some([dex |-> dex, tokenPair |-> pair, price |-> SimulatedPrice(pair, rnd)])
       ELSE None

\* extractDexInfo, the default pair: the first token of the DEX
DexInfoDefaults(dex, found, rnd) ==
  DexInfoResult(dex,
                IF IsSome(found.pair) THEN Val(found.pair)
                ELSE PairOf(SupportedTokens(dex)[1]),
                found.price, rnd)

\* ArbitrageStrategy.extractDexInfo; rnd is the value Math.random() returns
ExtractDexInfo(tx, rnd) ==
  IF IdentifyDex(tx) = "none" THEN None
  ELSE DexInfoDefaults(
         IdentifyDex(tx),
         DexInfoFromData(tx,
           DexInfoFromOutMsg(tx, IdentifyDex(tx),
             IF IsSome(tx.outMsg)
             THEN FirstValidOffset(Val(tx.outMsg).fields, ArbOffsets, 1) ELSE 0)),
         rnd)

(***************************************************************************)
(* Configurations.                                                         *)
(***************************************************************************)
\* the defaults of the ArbitrageStrategy constructor
ArbDefaultConfig ==
  [enabled |-> TRUE,
   minPriceDifferencePercent |-> R(1, 2),
   maxSlippage |-> R(1, 2),
   gasBuffer |-> R(5, 1000),
   dexes |-> SupportedDexes,
   minProfitEstimate |-> R(1, 100),
   minConfidence |-> R(7, 10)]

\* the defaults of the SandwichStrategy constructor
SandwichDefaultConfig ==
  [enabled |-> TRUE,
   minConfidence |-> R(8, 10),
   minProfitEstimate |-> R(5, 100),
   minTargetSwapSize |-> R(10, 1),
   maxFrontRunGas |-> R(3, 100),
   maxBackRunGas |-> R(3, 100),
   targetPairs |-> <<"TON/USDT", "TON/USDC", "JETTON/TON">>,
   slippageTolerance |-> One]

\* { ...this.config, ...config }
MergeConfig(config, partial) ==
  [k \in DOMAIN config \cup DOMAIN partial |->
     IF k \in DOMAIN partial THEN partial[k] ELSE config[k]]

(***************************************************************************)
(* Price cache of the ArbitrageStrategy: priceCache[dex][pair] is absent   *)
(* or an entry [price, timestamp, order], order being the place of the key *)
(* among the keys of priceCache[dex].                                      *)
(***************************************************************************)
PRICE_CACHE_TTL == 60000
MAX_CACHE_SIZE == 1000

\* the cache after the constructor: an empty object for every configured DEX
EmptyCache == [d \in Dexes |-> [p \in Pairs |-> None]]

CachedPairs(cache, dex) == {p \in Pairs : IsSome(cache[dex][p])}

NewestOf(cache, dex, cand) ==
  CHOOSE p \in cand :
    \A q \in cand :
      \/ Val(cache[dex][p]).timestamp > Val(cache[dex][q]).timestamp
      \/ /\ Val(cache[dex][p]).timestamp = Val(cache[dex][q]).timestamp
         /\ Val(cache[dex][p]).order >= Val(cache[dex][q]).order

\* the oldest entry among the pairs cand of a DEX: the first one of the stable
\* sort by timestamp, entries of the same timestamp staying in key order
OldestOf(cache, dex, cand) ==
  CHOOSE p \in cand :
    \A q \in cand :
      \/ Val(cache[dex][p]).timestamp < Val(cache[dex][q]).timestamp
      \/ /\ Val(cache[dex][p]).timestamp = Val(cache[dex][q]).timestamp
         /\ Val(cache[dex][p]).order <= Val(cache[dex][q]).order

\* the k oldest pairs of a DEX
RECURSIVE OldestPairs(_, _, _)
OldestPairs(cache, dex, k) ==
  IF k <= 0 THEN {}
  ELSE OldestPairs(cache, dex, k - 1)
       \cup {OldestOf(cache, dex, CachedPairs(cache, dex) \ OldestPairs(cache, dex, k - 1))}

\* cleanupPriceCache, first part: the entries older than the TTL are deleted
ExpireEntries(cache, now) ==
  [d \in Dexes |-> [p \in Pairs |->
     IF IsSome(cache[d][p]) /\ now - Val(cache[d][p]).timestamp > PRICE_CACHE_TTL
     THEN None ELSE cache[d][p]]]

\* the pairs of a DEX that the capacity rule deletes when the capacity is max:
\* the oldest ones beyond max
OverCapacityWithin(cache, dex, max) ==
  IF Cardinality(CachedPairs(cache, dex)) > max
  THEN OldestPairs(cache, dex, Cardinality(CachedPairs(cache, dex)) - max)
  ELSE {}

\* the pairs of a DEX that the capacity rule deletes: the oldest ones beyond
\* MAX_CACHE_SIZE
OverCapacity(cache, dex) == OverCapacityWithin(cache, dex, MAX_CACHE_SIZE)

\* cleanupPriceCache, second part: the capacity rule for the capacity max
EvictOverCapacityWithin(cache, max) ==
  [d \in Dexes |-> [p \in Pairs |->
     IF p \in OverCapacityWithin(cache, d, max) THEN None ELSE cache[d][p]]]

\* cleanupPriceCache, second part: the capacity rule
EvictOverCapacity(cache) == EvictOverCapacityWithin(cache, MAX_CACHE_SIZE)

\* the place of a key among the keys of priceCache[dex]: after a delete the
\* keys that are left keep their order
KeyOrder(cache) ==
  [d \in Dexes |-> [p \in Pairs |->
     IF IsSome(cache[d][p])
     THEN Some([Val(cache[d][p]) EXCEPT !.order =
                  Cardinality({q \in CachedPairs(cache, d) :
                                 Val(cache[d][q]).order <= Val(cache[d][p]).order})])
     ELSE None]]

\* cleanupPriceCache at time now, for the capacity max
CleanupPriceCacheWithin(cache, now, max) ==
  KeyOrder(EvictOverCapacityWithin(ExpireEntries(cache, now), max))

\* ArbitrageStrategy.cleanupPriceCache at time now
CleanupPriceCache(cache, now) == CleanupPriceCacheWithin(cache, now, MAX_CACHE_SIZE)

\* this.priceCache[dex][tokenPair] = { price, timestamp: Date.now() }: a key
\* that is there keeps its place, a new key comes last
WrittenEntry(cache, dex, pair, price, now) ==
  Some([price |-> price, timestamp |-> now,
        order |-> IF IsSome(cache[dex][pair]) THEN Val(cache[dex][pair]).order
                  ELSE Cardinality(CachedPairs(cache, dex)) + 1])

\* updatePriceCache at time now, for the capacity max
UpdatePriceCacheWithin(cache, dex, pair, price, now, max) ==
  CleanupPriceCacheWithin(
    [cache EXCEPT ![dex][pair] = WrittenEntry(cache, dex, pair, price, now)], now, max)

\* ArbitrageStrategy.updatePriceCache at time now
UpdatePriceCache(cache, dex, pair, price, now) ==
  UpdatePriceCacheWithin(cache, dex, pair, price, now, MAX_CACHE_SIZE)

GetPriceFromCacheNoTTL(cache, dex, pair, now) ==
  IF ~IsSome(cache[dex][pair]) THEN [cache |-> cache, price |-> None]
  ELSE [cache |-> cache, price |-> Some(Val(cache[dex][pair]).price)]

\* ArbitrageStrategy.getPriceFromCache at time now: the price or null, and the
\* cache after the call (an expired entry is deleted by the read)
GetPriceFromCache(cache, dex, pair, now) ==
  IF ~IsSome(cache[dex][pair]) THEN [cache |-> cache, price |-> None]
  ELSE IF now - Val(cache[dex][pair]).timestamp > PRICE_CACHE_TTL
       THEN [cache |-> KeyOrder([cache EXCEPT ![dex][pair] = None]), price |-> None]
       ELSE [cache |-> cache, price |-> Some(Val(cache[dex][pair]).price)]

(***************************************************************************)
(* Packets.  transactions is the optional pre-extracted list; data is the  *)
(* payload: falsy (null, undefined, 0, ''), or an object with the optional *)
(* lists transactions, messages, externalMessages, array (the payload is   *)
(* itself a list) and, when the payload has the shape of one transaction,  *)
(* outMsg (outMsgs[0], a Buffer) and data.  A list that is None stands for *)
(* a field that is absent, falsy or not an array.                          *)
(***************************************************************************)
Payload(transactions, messages, array, externalMessages, outMsg, data) ==
  [falsy |-> FALSE, transactions |-> transactions, messages |-> messages,
   array |-> array, externalMessages |-> externalMessages,
   outMsg |-> outMsg, data |-> data]

FalsyPayload == [falsy |-> TRUE]

Packet(id, timestamp, transactions, data) ==
  [id |-> id, timestamp |-> timestamp, transactions |-> transactions, data |-> data]

ExtractMessagesFirst(packet) ==
  IF IsSome(packet.transactions) THEN Val(packet.transactions)
  ELSE IF packet.data.falsy THEN <<>>
  ELSE IF IsSome(packet.data.messages) THEN Val(packet.data.messages)
  ELSE IF IsSome(packet.data.transactions) THEN Val(packet.data.transactions)
  ELSE IF IsSome(packet.data.array) THEN Val(packet.data.array)
  ELSE IF IsSome(packet.data.externalMessages) THEN Val(packet.data.externalMessages)
  ELSE <<>>

\* the packet is null or undefined
NullPacket == [null |-> TRUE]

\* extractTransactionsFromPacket (searcher)
ExtractTransactionsFromPacket(packet) ==
  IF IsSome(packet.transactions) THEN Val(packet.transactions)
  ELSE IF packet.data.falsy THEN <<>>
  ELSE IF IsSome(packet.data.transactions) THEN Val(packet.data.transactions)
  ELSE IF IsSome(packet.data.messages) THEN Val(packet.data.messages)
  ELSE IF IsSome(packet.data.array) THEN Val(packet.data.array)
  ELSE IF IsSome(packet.data.externalMessages) THEN Val(packet.data.externalMessages)
  ELSE <<>>

\* ArbitrageStrategy.extractTransactions
ArbExtractTransactions(packet) ==
  IF IsSome(packet.transactions) THEN Val(packet.transactions)
  ELSE IF packet.data.falsy THEN <<>>
  ELSE IF IsSome(packet.data.transactions) THEN Val(packet.data.transactions)
  ELSE IF IsSome(packet.data.messages) THEN Val(packet.data.messages)
  ELSE IF IsSome(packet.data.array) THEN Val(packet.data.array)
  ELSE <<>>

(***************************************************************************)
(* Opportunities.  An opportunity is [id, strategy, timestamp,             *)
(* profitEstimate, confidence, details, aux]; the executionPlan text and   *)
(* rawData are left out.  aux is not a field of the program: it records    *)
(* the prices that were compared and the age of the cached one.            *)
(***************************************************************************)
\* an id no opportunity of the given set of ids carries (uuidv4)
FreshId(used) == CHOOSE i \in 1..(Cardinality(used) + 1) : i \notin used

\* ArbitrageStrategy.calculateOptimalTradeSize
CalculateOptimalTradeSize(buyPrice, sellPrice, maxSlippage) ==
  LET priceDifferencePercent == Mul(Div(Sub(sellPrice, buyPrice), buyPrice), R(100, 1))
      baseSize == R(10, 1)
      sizeFactor == MathMin(Div(priceDifferencePercent, One), R(5, 1))
  IN  Mul(baseSize, Add(One, sizeFactor))

\* ArbitrageStrategy.estimateGasCost
EstimateGasCost(buyDex, sellDex) ==
  LET baseGasCost == R(1, 100)
      c1 == IF buyDex = "Megaton" \/ sellDex = "Megaton" THEN R(2, 1000) ELSE Zero
      c2 == IF buyDex # sellDex THEN R(3, 1000) ELSE Zero
  IN  Add(baseGasCost, Add(c1, c2))

ArbCalculateConfidenceTenPercent(priceDifferencePercent, estimatedProfit, minProfitEstimate) ==
  LET priceDiffFactor == MathMin(Div(priceDifferencePercent, R(10, 1)), One)
      profitFactor == MathMin(Div(estimatedProfit, Mul(minProfitEstimate, R(10, 1))), One)
  IN  Add(Mul(priceDiffFactor, R(7, 10)), Mul(profitFactor, R(3, 10)))

\* ArbitrageStrategy.calculateConfidence
ArbCalculateConfidence(priceDifferencePercent, estimatedProfit, minProfitEstimate) ==
  LET priceDifferenceScore == MathMin(Div(priceDifferencePercent, R(5, 1)), One)
      profitScore == MathMin(Div(estimatedProfit, Mul(minProfitEstimate, R(10, 1))), One)
  IN  Add(Mul(priceDifferenceScore, R(7, 10)), Mul(profitScore, R(3, 10)))

ArbBelowMinDifferenceUnchecked(priceDifferencePercent, config) == FALSE

\* the test "priceDifferencePercent < arbitrageConfig.minPriceDifferencePercent"
ArbBelowMinDifference(priceDifferencePercent, config) ==
  Lt(priceDifferencePercent, config.minPriceDifferencePercent)

\* the opportunity built by ArbitrageStrategy.analyze from a comparison c
ArbOpportunity(id, c, packet) ==
  [id |-> id,
   strategy |-> "arbitrage",
   timestamp |-> packet.timestamp,
   profitEstimate |-> c.estimatedProfit,
   confidence |-> c.confidence,
   details |-> [buyDex |-> c.buyDex, sellDex |-> c.sellDex,
                tokenPair |-> c.info.tokenPair,
                priceDifferencePercent |-> c.priceDifferencePercent,
                buyAmount |-> c.buyAmount, sellAmount |-> c.sellAmount,
                estimatedProfit |-> c.estimatedProfit,
                estimatedGas |-> c.estimatedGas],
   aux |-> [observedDex |-> c.info.dex, observedPrice |-> c.info.price,
            cachedDex |-> c.otherDex, cachedPrice |-> c.otherPrice,
            cachedAge |-> c.priceCacheAge]]

\* newOpportunities.push(opportunity); this.opportunities.push(opportunity)
ArbEmit(st, opportunity) ==
  [st EXCEPT !.out = Append(@, opportunity),
             !.hist = Append(@, opportunity),
             !.used = @ \cup {opportunity.id}]

\* the test of the confidence, and the emission
ArbConfident(st, c, config, packet) ==
  IF Lt(c.confidence, config.minConfidence) THEN st
  ELSE ArbEmit(st, ArbOpportunity(FreshId(st.used), c, packet))

\* the test of the profit, and the confidence
ArbProfitable(st, c, config, packet) ==
  IF Lt(c.estimatedProfit, config.minProfitEstimate) THEN st
  ELSE ArbConfident(st,
         c @@ [confidence |-> ArbCalculateConfidence(c.priceDifferencePercent,
                                c.estimatedProfit, config.minProfitEstimate)],
         config, packet)

\* the profit of the trade
ArbProfit(st, c, config, packet) ==
  ArbProfitable(st,
    c @@ [estimatedProfit |->
            Sub(Sub(Sub(c.sellAmount, c.buyAmount), c.estimatedGas), config.gasBuffer)],
    config, packet)

\* the amounts of the trade and its gas
ArbAmounts(st, c, config, packet) ==
  ArbProfit(st,
    c @@ [buyAmount |-> c.optimalTradeSize,
          sellAmount |-> Mul(Mul(c.optimalTradeSize, Div(c.sellPrice, c.buyPrice)),
                             Sub(One, Div(config.maxSlippage, R(100, 1)))),
          estimatedGas |-> EstimateGasCost(c.buyDex, c.sellDex)],
    config, packet)

ArbPricesObservedBuys(st, c, config, packet) ==
  IF ArbBelowMinDifference(c.priceDifferencePercent, config) THEN st
  ELSE ArbAmounts(st,
         c @@ [buyDex |-> c.info.dex,
               sellDex |-> c.otherDex,
               buyPrice |-> IF c.cheaper THEN c.info.price ELSE c.otherPrice,
               sellPrice |-> IF c.cheaper THEN c.otherPrice ELSE c.info.price,
               optimalTradeSize |->
                 CalculateOptimalTradeSize(
                   IF c.cheaper THEN c.info.price ELSE c.otherPrice,
                   IF c.cheaper THEN c.otherPrice ELSE c.info.price,
                   config.maxSlippage)],
         config, packet)

\* the test of the price difference, the direction of the trade and its size
ArbPrices(st, c, config, packet) ==
  IF ArbBelowMinDifference(c.priceDifferencePercent, config) THEN st
  ELSE ArbAmounts(st,
         c @@ [buyDex |-> IF c.cheaper THEN c.info.dex ELSE c.otherDex,
               sellDex |-> IF c.cheaper THEN c.otherDex ELSE c.info.dex,
               buyPrice |-> IF c.cheaper THEN c.info.price ELSE c.otherPrice,
               sellPrice |-> IF c.cheaper THEN c.otherPrice ELSE c.info.price,
               optimalTradeSize |->
                 CalculateOptimalTradeSize(
                   IF c.cheaper THEN c.info.price ELSE c.otherPrice,
                   IF c.cheaper THEN c.otherPrice ELSE c.info.price,
                   config.maxSlippage)],
         config, packet)

\* the cached price read of otherDex: nothing to compare when it is absent or
\* falsy, or older than 60 seconds; read = [cache, price] is what
\* getPriceFromCache gave
ArbCached(st, read, info, otherDex, config, packet, now) ==
  IF ~IsSome(read.price) \/ ~Truthy(Val(read.price))
  THEN [st EXCEPT !.cache = read.cache]
  ELSE IF now - Val(read.cache[otherDex][info.tokenPair]).timestamp > 60000
  THEN [st EXCEPT !.cache = read.cache]
  ELSE ArbPrices([st EXCEPT !.cache = read.cache],
         [info |-> info,
          otherDex |-> otherDex,
          otherPrice |-> Val(read.price),
          priceCacheAge |-> now - Val(read.cache[otherDex][info.tokenPair]).timestamp,
          priceDifferencePercent |->
            MathAbs(Mul(Div(Sub(info.price, Val(read.price)),
                            MathMin(info.price, Val(read.price))), R(100, 1))),
          cheaper |-> Lt(info.price, Val(read.price))],
         config, packet)

\* one pass of the inner loop of ArbitrageStrategy.analyze: the DEX info just
\* observed against the cached price of otherDex.  st = [cache, hist, out, used]
ArbCompare(st, info, otherDex, config, packet, now) ==
  IF otherDex = info.dex THEN st
  ELSE ArbCached(st, GetPriceFromCache(st.cache, otherDex, info.tokenPair, now),
                 info, otherDex, config, packet, now)

\* the inner loop: for (const otherDex of arbitrageConfig.dexes)
RECURSIVE ArbCompareAll(_, _, _, _, _, _)
ArbCompareAll(st, info, j, config, packet, now) ==
  IF j > Len(config.dexes) THEN st
  ELSE ArbCompareAll(ArbCompare(st, info, config.dexes[j], config, packet, now),
                     info, j + 1, config, packet, now)

\* the body of the outer loop for a DEX transaction: dexInfo is what
\* extractDexInfo gave
ArbObserve(st, dexInfo, config, packet, now) ==
  IF ~IsSome(dexInfo) THEN st
  ELSE ArbCompareAll(
         [st EXCEPT !.cache = UpdatePriceCache(@, Val(dexInfo).dex, Val(dexInfo).tokenPair,
                                               Val(dexInfo).price, now)],
         Val(dexInfo), 1, config, packet, now)

\* the outer loop: for (const tx of transactions).  A null transaction makes
\* isDexTransaction throw (its catch block reads tx.hash), which the catch of
\* analyze turns into the end of the loop.  rnds[i] is the value of
\* Math.random() for transaction i
RECURSIVE ArbTxLoop(_, _, _, _, _, _, _)
ArbTxLoop(st, txs, i, rnds, config, packet, now) ==
  IF i > Len(txs) THEN st
  ELSE IF txs[i].null THEN st
  ELSE IF ~IsDexTransaction(txs[i]) THEN ArbTxLoop(st, txs, i + 1, rnds, config, packet, now)
  ELSE ArbTxLoop(ArbObserve(st, ExtractDexInfo(txs[i], rnds[i]), config, packet, now),
                 txs, i + 1, rnds, config, packet, now)

\* the state of a call of ArbitrageStrategy.analyze at its start
ArbStart(cache, hist, used) == [cache |-> cache, hist |-> hist, out |-> <<>>, used |-> used]

\* ArbitrageStrategy.analyze.  The result is [threw, out, cache, hist, used]:
\* whether the call threw, the list returned, the cache and the history after
\* the call.  Logging the first transaction (tx.hash, Object.keys(tx)) is
\* outside the try block and throws when that transaction is null
ArbAnalyze(cache, hist, used, config, packet, rnds, now) ==
  IF ~config.enabled THEN ArbStart(cache, hist, used) @@ [threw |-> FALSE]
  ELSE IF Len(ArbExtractTransactions(packet)) > 0 /\ ArbExtractTransactions(packet)[1].null
  THEN ArbStart(cache, hist, used) @@ [threw |-> TRUE]
  ELSE ArbTxLoop(ArbStart(cache, hist, used), ArbExtractTransactions(packet), 1, rnds,
                 config, packet, now) @@ [threw |-> FALSE]

(***************************************************************************)
(* SandwichStrategy.  It reads the payload (packet.data) as one            *)
(* transaction.  The data field of the payload is absent or                *)
(* [string, swapWord, amount]: whether it is a string or a Buffer, whether *)
(* it contains 'swap', 'exchange' or the swap op code, and the number      *)
(* parsed from its first run of 8 to 16 hex digits (FieldShort: no run).   *)
(***************************************************************************)
PayloadData(string, swapWord, amount) ==
  [string |-> string, swapWord |-> swapWord, amount |-> amount]

\* amountValue / 1e9 for an amount given in thousands
NanoToTon(amountK) == R(amountK, 1000000)

\* SandwichStrategy.extractSwapDetails: absent (null) or [tokenPair, swapSize,
\* fallback]; rnd is the value of Math.random() in the fallback.  A data field
\* that is neither a string nor a Buffer makes substring throw: null
ExtractSwapDetails(tx, config, rnd) ==
  LET off == IF IsSome(tx.outMsg) /\ Val(tx.outMsg).swapOp
             THEN FirstValidOffset(Val(tx.outMsg).fields, SandwichOffsets, 1) ELSE 0
      dataOk == IsSome(tx.data) /\ Val(tx.data).string /\ Val(tx.data).swapWord
                /\ Val(tx.data).amount # FieldShort /\ FieldValid(Val(tx.data).amount)
  IN  IF off # 0
      THEN Some([tokenPair |-> "TON/USDT",
                 swapSize |-> NanoToTon(Val(tx.outMsg).fields[off]), fallback |-> FALSE])
      ELSE IF IsSome(tx.data) /\ ~Val(tx.data).string THEN None
      ELSE IF dataOk
      THEN Some([tokenPair |-> "TON/USDT",
                 swapSize |-> NanoToTon(Val(tx.data).amount), fallback |-> FALSE])
      ELSE Some([tokenPair |-> IF Len(config.targetPairs) > 0 THEN config.targetPairs[1]
                               ELSE "undefined",
                 swapSize |-> Add(config.minTargetSwapSize, Mul(rnd, R(20, 1))),
                 fallback |-> TRUE])

CalculatePriceImpactUncapped(swapSize, config) ==
  LET sizeAboveMin == Sub(swapSize, config.minTargetSwapSize)
  IN  Add(R(1, 10), Mul(Div(sizeAboveMin, R(10, 1)), R(5, 100)))

\* SandwichStrategy.calculatePriceImpact
CalculatePriceImpact(swapSize, config) ==
  LET sizeAboveMin == Sub(swapSize, config.minTargetSwapSize)
      impact == Add(R(1, 10), Mul(Div(sizeAboveMin, R(10, 1)), R(5, 100)))
  IN  MathMin(impact, R(5, 1))

\* SandwichStrategy.calculateOptimalFrontRunAmount
CalculateOptimalFrontRunAmount(targetSwapSize, priceImpact) ==
  Mul(targetSwapSize, Add(R(15, 100), Div(priceImpact, R(100, 1))))

\* SandwichStrategy.calculateOptimalBackRunAmount
CalculateOptimalBackRunAmount(targetSwapSize, frontRunAmount, rnd) ==
  Add(frontRunAmount, Mul(targetSwapSize, Add(R(5, 100), Mul(rnd, R(5, 100)))))

\* SandwichStrategy.calculateProfitEstimate
CalculateProfitEstimate(targetSwapSize, priceImpact, gasCost, rnd) ==
  LET captureRate == Add(R(6, 10), Mul(rnd, R(2, 10)))
      grossProfit == Mul(Div(Mul(targetSwapSize, priceImpact), R(100, 1)), captureRate)
  IN  Sub(grossProfit, gasCost)

\* SandwichStrategy.calculateConfidence
SandwichCalculateConfidence(swapSize, priceImpact, profitEstimate, config) ==
  LET swapSizeFactor ==
        MathMin(Mul(Div(swapSize, config.minTargetSwapSize), R(5, 100)), R(15, 100))
      impactFactor == MathMin(Mul(priceImpact, R(2, 100)), R(1, 10))
      profitFactor ==
        MathMin(Mul(Div(profitEstimate, config.minProfitEstimate), R(2, 100)), R(1, 10))
      confidence == Add(Add(Add(R(7, 10), swapSizeFactor), impactFactor), profitFactor)
  IN  MathMin(confidence, R(98, 100))

SeqContains(seq, x) == \E i \in 1..Len(seq) : seq[i] = x

SandwichPairUnchecked(tokenPair, config) == FALSE

\* the test "!sandwichConfig.targetPairs.includes(swapDetails.tokenPair)"
SandwichPairNotTargeted(tokenPair, config) == ~SeqContains(config.targetPairs, tokenPair)

\* the test "swapDetails.swapSize < sandwichConfig.minTargetSwapSize"
SandwichSizeTooSmall(swapSize, config) == Lt(swapSize, config.minTargetSwapSize)

\* the opportunity built by SandwichStrategy.analyze from the swap s
SandwichOpportunity(id, s, packet) ==
  [id |-> id,
   strategy |-> "sandwich",
   timestamp |-> packet.timestamp,
   profitEstimate |-> s.profitEstimate,
   confidence |-> s.confidence,
   details |-> [tokenPair |-> s.tokenPair,
                targetSwapSize |-> s.swapSize,
                estimatedPriceImpact |-> s.estimatedPriceImpact,
                frontRunAmount |-> s.frontRunAmount,
                backRunAmount |-> s.backRunAmount,
                estimatedFrontRunGas |-> s.estimatedFrontRunGas,
                estimatedBackRunGas |-> s.estimatedBackRunGas,
                totalGasCost |-> s.totalGasCost],
   aux |-> [fallback |-> s.fallback]]

\* newOpportunities.push(opportunity); this.opportunities.push(opportunity)
SandwichEmit(none, opportunity) ==
  [threw |-> FALSE, out |-> <<opportunity>>,
   hist |-> Append(none.hist, opportunity), used |-> none.used \cup {opportunity.id}]

\* the test of the confidence, and the emission
SandwichConfident(none, s, config, packet) ==
  IF Lt(s.confidence, config.minConfidence) THEN none
  ELSE SandwichEmit(none, SandwichOpportunity(FreshId(none.used), s, packet))

\* the test of the profit, and the confidence
SandwichProfitable(none, s, config, packet) ==
  IF Lt(s.profitEstimate, config.minProfitEstimate) THEN none
  ELSE SandwichConfident(none,
         s @@ [confidence |-> SandwichCalculateConfidence(s.swapSize,
                                s.estimatedPriceImpact, s.profitEstimate, config)],
         config, packet)

\* the total gas and the profit
SandwichProfit(none, s, config, packet, rnds) ==
  SandwichProfitable(none,
    s @@ [totalGasCost |-> Add(s.estimatedFrontRunGas, s.estimatedBackRunGas),
          profitEstimate |->
            CalculateProfitEstimate(s.swapSize, s.estimatedPriceImpact,
              Add(s.estimatedFrontRunGas, s.estimatedBackRunGas), rnds.capture)],
    config, packet)

\* the gas of the two transactions
SandwichBackRun(none, s, config, packet, rnds) ==
  SandwichProfit(none,
    s @@ [estimatedFrontRunGas |->
            MathMin(config.maxFrontRunGas,
                    Add(R(1, 100), Mul(s.frontRunAmount, R(1, 1000)))),
          estimatedBackRunGas |->
            MathMin(config.maxBackRunGas,
                    Add(R(1, 100), Mul(s.backRunAmount, R(1, 1000))))],
    config, packet, rnds)

\* the back-run amount
SandwichFrontRun(none, s, config, packet, rnds) ==
  SandwichBackRun(none,
    s @@ [backRunAmount |->
            CalculateOptimalBackRunAmount(s.swapSize, s.frontRunAmount, rnds.backRun)],
    config, packet, rnds)

\* the test of the price impact, and the front-run amount
SandwichImpact(none, s, config, packet, rnds) ==
  IF Lt(s.estimatedPriceImpact, R(1, 2)) THEN none
  ELSE SandwichFrontRun(none,
         s @@ [frontRunAmount |->
                 CalculateOptimalFrontRunAmount(s.swapSize, s.estimatedPriceImpact)],
         config, packet, rnds)

\* the tests of the pair and of the size of the swap; swapDetails is what
\* extractSwapDetails gave
SandwichSwap(none, swapDetails, config, packet, rnds) ==
  IF ~IsSome(swapDetails) THEN none
  ELSE IF SandwichPairNotTargeted(Val(swapDetails).tokenPair, config) THEN none
  ELSE IF SandwichSizeTooSmall(Val(swapDetails).swapSize, config) THEN none
  ELSE SandwichImpact(none,
         Val(swapDetails) @@
           [estimatedPriceImpact |-> CalculatePriceImpact(Val(swapDetails).swapSize, config)],
         config, packet, rnds)

\* the result of SandwichStrategy.analyze when nothing is emitted
SandwichNone(hist, used) == [threw |-> FALSE, out |-> <<>>, hist |-> hist, used |-> used]

\* SandwichStrategy.analyze.  rnds = [fallback, backRun, capture] are the values
\* of Math.random().  The result is [threw, out, hist, used].  The body is one
\* try block, so the call never throws; the enabled flag is not read
SandwichAnalyze(hist, used, config, packet, rnds) ==
  IF packet.data.falsy THEN SandwichNone(hist, used)
  ELSE SandwichSwap(SandwichNone(hist, used),
                    ExtractSwapDetails(packet.data, config, rnds.fallback),
                    config, packet, rnds)

(***************************************************************************)
(* StrategyManager.                                                        *)
(***************************************************************************)
VARIABLES
  strategies,  \* the registry: the names of the Map, in insertion order
  config,      \* config[name]: the configuration of the strategy registered as name
  hist,        \* hist[name]: the strategy's own list of opportunities
  cache,       \* the price cache of the arbitrage strategy
  store,       \* StrategyManager.opportunities
  processed,   \* processedTransactions of the client, in insertion order
  latest,      \* latestOpportunities of the client
  held,        \* a config obtained with getConfig: None or Some([name, value, same]),
               \* same telling whether it still is the object this.config refers to
  stream,      \* the handler of the subscription stream and its pending timeouts
  subscription, \* the SubscriptionManager and the streams of its subscription
  now,         \* Date.now()
  ret          \* the last call: [op, arg, threw, errors, value, notified]

vars ==
  <<strategies, config, hist, cache, store, processed, latest, held, stream, subscription,
    now, ret>>

StrategyNames == {"arbitrage", "sandwich"}

DefaultConfig(name) == IF name = "arbitrage" THEN ArbDefaultConfig ELSE SandwichDefaultConfig

Registered(name) == SeqContains(strategies, name)

\* insert x into a list sorted by profitEstimate descending, after its equals
RECURSIVE InsertByProfit(_, _)
InsertByProfit(sorted, x) ==
  IF sorted = <<>> THEN <<x>>
  ELSE IF Lt(Head(sorted).profitEstimate, x.profitEstimate) THEN <<x>> \o sorted
  ELSE <<Head(sorted)>> \o InsertByProfit(Tail(sorted), x)

\* list.sort((a, b) => b.profitEstimate - a.profitEstimate): a stable sort
RECURSIVE SortByProfit(_)
SortByProfit(list) ==
  IF list = <<>> THEN <<>>
  ELSE InsertByProfit(SortByProfit(SubSeq(list, 1, Len(list) - 1)), list[Len(list)])

FilterByStrategy(list, name) == SelectSeq(list, LAMBDA opp : opp.strategy = name)

TakeOneMore(list, limit) ==
  IF limit > 0 /\ Len(list) > limit THEN SubSeq(list, 1, limit + 1) ELSE list

\* the part of getOpportunities after the sort: the first limit entries, all of
\* them when limit is 0
TakeLimit(list, limit) ==
  IF limit > 0 /\ Len(list) > limit THEN SubSeq(list, 1, limit) ELSE list

\* StrategyManager.getOpportunities(limit, strategyFilter); filter is an optional
\* name.  The result is [store, value]: without a filter the sort is applied to
\* the store itself
GetOpportunities(opps, limit, filter) ==
  IF IsSome(filter)
  THEN [store |-> opps,
        value |-> TakeLimit(SortByProfit(FilterByStrategy(opps, Val(filter))), limit)]
  ELSE [store |-> SortByProfit(opps),
        value |-> TakeLimit(SortByProfit(opps), limit)]

IdsOf(list) == {list[i].id : i \in 1..Len(list)}

\* the ids carried by the opportunities of a manager state
UsedIds(st) == IdsOf(st.store) \cup UNION {IdsOf(st.hist[n]) : n \in StrategyNames}

\* what a call of analyze did: [threw, out, cache, hist]
Outcome(r) == [threw |-> r.threw, out |-> r.out, cache |-> r.cache, hist |-> r.hist]

\* strategy.analyze(packet) for the strategy registered as name
StrategyAnalyze(name, st, packet, rnds, t) ==
  IF name = "arbitrage"
  THEN Outcome(ArbAnalyze(st.cache, st.hist[name], UsedIds(st), st.config[name],
                          packet, rnds.arb, t))
  ELSE Outcome(SandwichAnalyze(st.hist[name], UsedIds(st), st.config[name], packet, rnds)
                 @@ [cache |-> st.cache])

StrategyErrorPropagates(st) == [st EXCEPT !.threw = TRUE]

\* the catch block of the loop of analyzePacket: the error is logged with the
\* name of the strategy and the loop goes on
OnStrategyError(st) == st

CollectUnreturned(st, name, r) ==
  IF r.threw THEN OnStrategyError([st EXCEPT !.errors = Append(@, name)])
  ELSE [st EXCEPT !.cache = r.cache, !.hist[name] = r.hist, !.store = @ \o r.out]

\* the body of the loop of analyzePacket after strategy.analyze: r is what the
\* call did.  st = [config, cache, hist, store, out, errors, threw]: errors are
\* the names logged with "Error running strategy"
Collect(st, name, r) ==
  IF r.threw THEN OnStrategyError([st EXCEPT !.errors = Append(@, name)])
  ELSE IF Len(r.out) > 0
       THEN [st EXCEPT !.cache = r.cache, !.hist[name] = r.hist,
                       !.out = @ \o r.out, !.store = @ \o r.out]
       ELSE [st EXCEPT !.cache = r.cache, !.hist[name] = r.hist]

\* one pass of the loop of analyzePacket; once threw is set (the call has
\* thrown) nothing more is run
AnalyzeWithStrategy(st, name, packet, rnds, t) ==
  IF st.threw THEN st
  ELSE Collect(st, name, StrategyAnalyze(name, st, packet, rnds, t))

\* for (const strategy of this.strategies.values())
RECURSIVE AnalyzeLoop(_, _, _, _, _, _)
AnalyzeLoop(st, names, i, packet, rnds, t) ==
  IF i > Len(names) THEN st
  ELSE AnalyzeLoop(AnalyzeWithStrategy(st, names[i], packet, rnds, t),
                   names, i + 1, packet, rnds, t)

\* the size of the list sent with 'opportunitiesUpdated'
NotifyLimit == 20

\* this.emit('opportunitiesUpdated', this.getOpportunities(20)): notify is what
\* getOpportunities gave, its sort having been applied to the store
Notified(st, notify) ==
  [st EXCEPT !.store = notify.store] @@ [notified |-> Some(notify.value)]

AnalyzePacketNotifyAlways(st) ==
  IF st.threw THEN st @@ [notified |-> None]
  ELSE Notified(st, GetOpportunities(st.store, NotifyLimit, None))

\* the end of analyzePacket: the subscribers are notified when the packet
\* produced opportunities
AnalyzePacketNotify(st) ==
  IF st.threw THEN st @@ [notified |-> None]
  ELSE IF Len(st.out) > 0
       THEN Notified(st, GetOpportunities(st.store, NotifyLimit, None))
       ELSE st @@ [notified |-> None]

\* the manager and its strategies when analyzePacket is called
ManagerState ==
  [config |-> config, cache |-> cache, hist |-> hist, store |-> store,
   out |-> <<>>, errors |-> <<>>, threw |-> FALSE]

\* StrategyManager.analyzePacket(packet), called when the manager and its
\* strategies are in state st
AnalyzePacketFrom(st, packet, rnds) ==
  IF packet = NullPacket THEN st @@ [notified |-> None]
  ELSE IF packet.data.falsy THEN st @@ [notified |-> None]
  ELSE AnalyzePacketNotify(AnalyzeLoop(st, strategies, 1, packet, rnds, now))

\* StrategyManager.analyzePacket(packet), for a packet that is an object
AnalyzePacketResult(packet, rnds) == AnalyzePacketFrom(ManagerState, packet, rnds)

(***************************************************************************)
(* The client: the handler of the stream's data and processMempoolPacket.  *)
(* A datum of the stream is [serverTs, payload]: serverTs tells whether    *)
(* the parsed datum has a serverTs object.  The subscriber of              *)
(* 'opportunitiesUpdated' either returns or throws.                        *)
(***************************************************************************)
\* the size processedTransactions is cut back to
PROCESSED_LIMIT == 1000

Datum(serverTs, payload) == [serverTs |-> serverTs, payload |-> payload]

Listeners == {"returns", "throws"}

\* tx.hash?.toString('hex') || JSON.stringify(tx): every transaction object of
\* the model carries a hash
TxHash(tx) == tx.hash

\* the manager and its strategies after a call of analyzePacket that did r
AfterCall(r) ==
  [config |-> r.config, cache |-> r.cache, hist |-> r.hist, store |-> r.store,
   out |-> <<>>, errors |-> <<>>, threw |-> FALSE]

\* emit calls the subscriber: what it throws leaves analyzePacket
Heard(r, listener) ==
  IF IsSome(r.notified) /\ listener = "throws" THEN [r EXCEPT !.threw = TRUE] ELSE r

\* the loop body of processMempoolPacket after analyzePacket did r.  ps is
\* [m, processed, latest, calls, failed, threw]: m the manager and its
\* strategies, calls the number of analyzePacket calls, failed set when an
\* error reached the catch block
Analyzed(ps, r) ==
  IF r.threw
  THEN [ps EXCEPT !.m = AfterCall(r), !.calls = @ + 1, !.failed = TRUE]
  ELSE [ps EXCEPT !.m = AfterCall(r), !.calls = @ + 1, !.latest = @ \o r.out]

\* one pass of the loop of processMempoolPacket
ProcessTransaction(ps, tx, packet, rnds, listener) ==
  IF tx.null THEN [ps EXCEPT !.failed = TRUE]
  ELSE IF SeqContains(ps.processed, TxHash(tx)) THEN ps
  ELSE Analyzed([ps EXCEPT !.processed = Append(@, TxHash(tx))],
                Heard(AnalyzePacketFrom(ps.m, packet, rnds), listener))

\* for (const tx of transactions): an error ends the loop
RECURSIVE ProcessLoop(_, _, _, _, _, _)
ProcessLoop(ps, txs, i, packet, rnds, listener) ==
  IF i > Len(txs) \/ ps.failed THEN ps
  ELSE ProcessLoop(ProcessTransaction(ps, txs[i], packet, rnds, listener),
                   txs, i + 1, packet, rnds, listener)

\* processedTransactions is cut back to its last limit entries; an error that
\* reached the catch block has skipped this
CleanUpProcessedWithin(ps, limit) ==
  IF ~ps.failed /\ Len(ps.processed) > limit
  THEN [ps EXCEPT !.processed = SubSeq(@, Len(@) - limit + 1, Len(@))]
  ELSE ps

\* processedTransactions is cut back to its last PROCESSED_LIMIT entries
CleanUpProcessed(ps) == CleanUpProcessedWithin(ps, PROCESSED_LIMIT)

PipelineErrorPropagates(ps) == [ps EXCEPT !.threw = ps.failed]

\* the catch block of processMempoolPacket: the error is logged with the id of
\* the packet
OnPipelineError(ps) == ps

\* the client when processMempoolPacket is called
ClientState ==
  [m |-> ManagerState, processed |-> processed, latest |-> latest, calls |-> 0,
   failed |-> FALSE, threw |-> FALSE]

\* processMempoolPacket(packet) with the list extracted from the packet: the
\* packet given to analyzePacket carries the list as packet.transactions
ProcessExtractedWithin(ps, packet, txs, rnds, listener, limit) ==
  OnPipelineError(CleanUpProcessedWithin(
    ProcessLoop(ps, txs, 1, [packet EXCEPT !.transactions = Some(txs)], rnds, listener),
    limit))

ProcessExtracted(ps, packet, txs, rnds, listener) ==
  ProcessExtractedWithin(ps, packet, txs, rnds, listener, PROCESSED_LIMIT)

\* processMempoolPacket(packet), the set of processed keys cut back to limit
ProcessMempoolPacketWithin(ps, packet, rnds, listener, limit) ==
  ProcessExtractedWithin(ps, packet, ExtractTransactionsFromPacket(packet), rnds,
                         listener, limit)

\* processMempoolPacket(packet)
ProcessMempoolPacketResult(ps, packet, rnds, listener) ==
  ProcessMempoolPacketWithin(ps, packet, rnds, listener, PROCESSED_LIMIT)

\* the handler of the stream's "data" event: a datum that is falsy or has no
\* serverTs throws before processMempoolPacket is called, and the handler's
\* catch block logs the error
OnDataResultWithin(ps, datum, rnds, listener, limit) ==
  IF datum.payload.falsy \/ ~datum.serverTs THEN [ps EXCEPT !.failed = TRUE]
  ELSE ProcessMempoolPacketWithin(ps, Packet("p", now, None, datum.payload), rnds,
                                  listener, limit)

OnDataResult(ps, datum, rnds, listener) ==
  OnDataResultWithin(ps, datum, rnds, listener, PROCESSED_LIMIT)

(***************************************************************************)
(* The handler of a subscription stream (setupStreamHandlers).  Its state  *)
(* is [retryCount, isConnected, reconnectionTimer, pingTimer,              *)
(* lastDataTimestamp, timeouts]: reconnectionTimer is None or the id of    *)
(* the timeout last set, pingTimer tells whether the interval of the       *)
(* health check runs, and timeouts is the set of the handler's timeouts    *)
(* the event loop has pending, each [id, delay, periodic].  The id of a    *)
(* new timeout is one that no pending timeout carries.                     *)
(***************************************************************************)
maxRetries == 10
baseRetryDelay == 5000
maxRetryDelay == 60000
\* the delay of the periodic attempt after the retries are used up
periodicRetryDelay == 60000
\* the health check takes the connection for dead after this time without data
deadAfter == 120000

\* the state setupStreamHandlers leaves at time t
SetupStreamHandlers(t) ==
  [retryCount |-> 0, isConnected |-> FALSE, reconnectionTimer |-> None,
   pingTimer |-> TRUE, lastDataTimestamp |-> t, timeouts |-> {}]

\* Math.pow(1.5, k)
RECURSIVE PowerOfOneAndHalf(_)
PowerOfOneAndHalf(k) == IF k <= 0 THEN One ELSE Mul(R(3, 2), PowerOfOneAndHalf(k - 1))

\* Math.random() * 0.3 + 0.85
Jitter(rnd) == Add(Mul(rnd, R(3, 10)), R(85, 100))

\* Math.min(baseRetryDelay * Math.pow(1.5, retryCount - 1) * jitter, maxRetryDelay)
BackoffDelay(retryCount, rnd) ==
  MathMin(Mul(Mul(R(baseRetryDelay, 1), PowerOfOneAndHalf(retryCount - 1)), Jitter(rnd)),
          R(maxRetryDelay, 1))

\* if (reconnectionTimer) { clearTimeout(reconnectionTimer); reconnectionTimer = null; }
ClearReconnectionTimer(s) ==
  IF IsSome(s.reconnectionTimer)
  THEN [s EXCEPT !.timeouts = {t \in @ : t.id # Val(s.reconnectionTimer)},
                 !.reconnectionTimer = None]
  ELSE s

\* the id setTimeout returns
NewTimeoutId(s) ==
  CHOOSE i \in 1..(Cardinality(s.timeouts) + 2) :
    /\ \A t \in s.timeouts : t.id # i
    /\ s.reconnectionTimer # Some(i)

\* reconnectionTimer = setTimeout(..., delay)
SetReconnectionTimer(s, delay, periodic) ==
  [s EXCEPT !.timeouts = @ \cup {[id |-> NewTimeoutId(s), delay |-> delay,
                                  periodic |-> periodic]},
            !.reconnectionTimer = Some(NewTimeoutId(s))]

\* reconnect, after the timer was cleared: the periodic attempt when the
\* retries are used up, else one more retry after the backoff delay
ScheduleReconnection(s, rnd) ==
  IF s.retryCount >= maxRetries
  THEN SetReconnectionTimer(s, R(periodicRetryDelay, 1), TRUE)
  ELSE SetReconnectionTimer([s EXCEPT !.retryCount = @ + 1],
                            BackoffDelay(s.retryCount + 1, rnd), FALSE)

ReconnectKeepingTimer(s, rnd) == ScheduleReconnection(s, rnd)

\* reconnect(); rnd is the value of Math.random()
Reconnect(s, rnd) == ScheduleReconnection(ClearReconnectionTimer(s), rnd)

\* the callback of a timeout: the periodic attempt resets retryCount and
\* reconnects; the other one subscribes again, which sets up a handler of its
\* own for the new stream, and reconnects when subscribing throws
TimeoutCallback(s, timeout, throws, rnd) ==
  IF timeout.periodic THEN Reconnect([s EXCEPT !.retryCount = 0], rnd)
  ELSE IF throws THEN Reconnect(s, rnd)
  ELSE s

\* the first statements of stream.on("data", ...)
DataReceived(s, t) ==
  [s EXCEPT !.isConnected = TRUE, !.lastDataTimestamp = t, !.retryCount = 0]

\* the callback of the interval of the health check
PingCallback(s, t, rnd) ==
  IF t - s.lastDataTimestamp > deadAfter /\ s.isConnected
  THEN Reconnect([s EXCEPT !.isConnected = FALSE, !.pingTimer = FALSE], rnd)
  ELSE s

\* stream.cleanup()
CleanedUp(s) == ClearReconnectionTimer([s EXCEPT !.pingTimer = FALSE])

(***************************************************************************)
(* The SubscriptionManager and its subscription 'workchain-0'.  The state  *)
(* is [registered, streams, failures]: streams are the streams that were   *)
(* created for the subscription, in the order of their creation, each      *)
(* [state, handler]: state is "open", "failed" once its error event was    *)
(* delivered, or "closed" once its status was delivered or it was          *)
(* cancelled, and handler is the state setupStreamHandlers keeps for it.   *)
(* registered is None or the index of the stream the Map of the manager    *)
(* holds for the id.  failures is not a field of the program: it counts    *)
(* the error events since the last datum.                                  *)
(***************************************************************************)
NoSubscription == [registered |-> None, streams |-> <<>>, failures |-> 0]

\* subscribeByWorkchain: a new stream and its handler
SubscribeByWorkchain(sub, t) ==
  [sub EXCEPT !.streams = Append(@, [state |-> "open", handler |-> SetupStreamHandlers(t)])]

\* SubscriptionManager.startSubscription: nothing when the id is registered
StartedSubscription(sub, t) ==
  IF IsSome(sub.registered) THEN sub
  ELSE [SubscribeByWorkchain(sub, t) EXCEPT !.registered = Some(Len(sub.streams) + 1)]

\* stream.cancel() and stream.cleanup() of the registered stream, and the
\* removal of the id from the Map
StoppedSubscription(sub) ==
  IF ~IsSome(sub.registered) THEN sub
  ELSE [sub EXCEPT !.registered = None,
                   !.streams[Val(sub.registered)] =
                      [state |-> "closed", handler |-> CleanedUp(@.handler)]]

\* the timeouts the handlers of the subscription have pending
PendingTimeouts(sub) == UNION {sub.streams[i].handler.timeouts : i \in 1..Len(sub.streams)}

\* the streams of the subscription that are open
LiveStreams(sub) == {i \in 1..Len(sub.streams) : sub.streams[i].state = "open"}

(***************************************************************************)
(* Inputs.                                                                 *)
(***************************************************************************)
\* the values Math.random() takes
RandomDraws == {Zero, R(1, 2)}

\* the draws of one analyzePacket call: one per transaction and three for the
\* sandwich, all of them of the same value
RandomInputs ==
  {[arb |-> [i \in 1..MaxTxs |-> r], fallback |-> r, backRun |-> r, capture |-> r] :
     r \in RandomDraws}

\* the draws of the store scenarios: every draw is 0
ZeroDraws == {[arb |-> [i \in 1..MaxTxs |-> Zero], fallback |-> Zero, backRun |-> Zero,
               capture |-> Zero]}

\* the values of the clock
Instants == {0, PRICE_CACHE_TTL, PRICE_CACHE_TTL + 1}

\* DeDust, recognised by the op code in outMsgs[0]; price 0.50 at the first offset
TxDeDust050 == Tx("a", "none", Some(OutMsg(TRUE, TRUE, FieldsAt(24, 500))), None)
\* Ston.fi, recognised by its address; pool id of USDT and price 0.51 in data
TxSton051 == Tx("b", "Ston.fi", None, Some(DataHex(FALSE, "USDT", 510000)))
\* Ston.fi, price 0.60
TxSton060 == Tx("c", "Ston.fi", None, Some(DataHex(TRUE, "USDT", 600000)))
\* not a DEX transaction
TxPlain == Tx("e", "none", Some(OutMsg(FALSE, FALSE, FieldsAt(8, 7))), None)

NoLists(outMsg, data) == Payload(None, None, None, None, outMsg, data)
OnlyTransactions(txs) == Payload(Some(txs), None, None, None, None, None)

\* a payload that is one swap of the given size in TON, the amount at offset off
PayloadSwap(size, off) ==
  NoLists(Some(OutMsg(FALSE, TRUE, FieldsAt(off, size * 1000000))), None)

\* the packets delivered to the manager at time t
Packets(t) ==
  { Packet("p", t, None, FalsyPayload),
    Packet("p", t, None, OnlyTransactions(<<TxDeDust050>>)),
    Packet("p", t, None, Payload(None, Some(<<TxSton060>>), None, None, None, None)),
    Packet("p", t, None, PayloadSwap(100, 8)),
    Packet("p", t, Some(<<NullTx>>), PayloadSwap(100, 8)) }

\* the packets of the statistics scenarios: those above, no packet at all, and
\* a packet whose data is an empty object
StorePackets(t) ==
  Packets(t) \cup {NullPacket, Packet("p", t, None, NoLists(None, None))}

\* the packets of the reconfiguration scenarios
ConfigPackets(t) ==
  { Packet("p", t, None, OnlyTransactions(<<TxDeDust050>>)),
    Packet("p", t, None, Payload(None, None, Some(<<TxSton051>>), None, None, None)),
    Packet("p", t, None, PayloadSwap(100, 8)),
    Packet("p", t, None, PayloadSwap(5, 8)),
    Packet("p", t, None, PayloadSwap(50, 16)),
    Packet("p", t, None, NoLists(None, Some(PayloadData(TRUE, TRUE, 120000000)))),
    Packet("p", t, None, NoLists(None, Some(PayloadData(FALSE, FALSE, FieldShort)))) }

\* the packets of the price cache scenarios
ArbPackets(t) ==
  { Packet("p", t, None, OnlyTransactions(<<TxDeDust050>>)),
    Packet("p", t, None, OnlyTransactions(<<TxPlain, TxSton051>>)) }

\* the packets of the notification scenarios: no payload, a swap too small for
\* the sandwich, and a swap of 100 TON
NotifyPackets(t) ==
  { Packet("p", t, None, FalsyPayload),
    Packet("p", t, None, PayloadSwap(5, 8)),
    Packet("p", t, None, PayloadSwap(100, 8)) }

\* a swap of 200 TON, of which at most MaxLargeSwaps are delivered
LargeSwapPacket(t) == Packet("p", t, None, PayloadSwap(200, 8))

LargeSwaps ==
  Len(SelectSeq(hist["sandwich"], LAMBDA o : o.details.targetSwapSize = R(200, 1)))

\* the packets of the sandwich scenarios: swaps of 5, 18, 89, 90, 100 and 1000
\* TON
SandwichPackets(t) ==
  { Packet("p", t, None, PayloadSwap(size, 8)) : size \in {5, 18, 89, 90, 100, 1000} }

\* the partial configurations of the sandwich scenarios
SandwichPatches ==
  { [minTargetSwapSize |-> R(20, 1)],
    [minTargetSwapSize |-> R(10, 1)] }

\* the packets of the threshold scenarios: the two prices of TON/USDT and a
\* swap of 100 TON
ThresholdPackets(t) == ArbPackets(t) \cup {Packet("p", t, None, PayloadSwap(100, 8))}

\* the partial configurations of the threshold scenarios: a lower minimal
\* confidence, and no minimal profit together with a gas buffer that is the
\* whole margin of the trade between 0.50 and 0.51 (30.447 - 30 - 0.013)
ThresholdPatches ==
  { [minConfidence |-> R(1, 2)],
    [minProfitEstimate |-> Zero, gasBuffer |-> R(434, 1000)] }

\* the fields after the op code, from offset 8 on: one value for each offset
FieldsFrom(values) == [x \in AllOffsets |-> values[x \div 8]]

\* the fields of the decoding scenarios of the arbitrage: a zero and a value of
\* 1e18 or more before 0.51 and 0.60; 0.50 before 0.60; 0.60 at the last
\* offset; no plausible value inside the payload
ArbFields ==
  { FieldsFrom(<<0, 0, 0, FieldHuge, 510, 600, FieldShort, FieldShort>>),
    FieldsFrom(<<0, 0, 500, 600, FieldHuge, 0, 0, FieldShort>>),
    FieldsFrom(<<0, 0, 0, 0, 0, 0, 0, 600>>),
    FieldsFrom(<<0, 0, 0, FieldHuge, FieldShort, FieldShort, FieldShort, FieldShort>>) }

\* the fields of the decoding scenarios of the sandwich, in thousands of nano
\* TON: a value of 1e18 or more before 100 and 200 TON; 200 before 100 TON;
\* 100 TON at the last offset; no plausible value inside the payload
SwapFields ==
  { FieldsFrom(<<FieldHuge, 100000000, 200000000, FieldShort, FieldShort, FieldShort,
                 FieldShort, FieldShort>>),
    FieldsFrom(<<200000000, 100000000, 0, 0, 0, 0, 0, 0>>),
    FieldsFrom(<<0, 0, 0, 100000000, 200000000, FieldShort, FieldShort, FieldShort>>),
    FieldsFrom(<<0, FieldHuge, FieldShort, FieldShort, FieldShort, FieldShort, FieldShort,
                 FieldShort>>) }

\* the packets of the decoding scenarios: one DeDust transaction, or one swap
DecodePackets(t) ==
  { Packet("p", t, None,
           OnlyTransactions(<<Tx("a", "none", Some(OutMsg(TRUE, TRUE, f)), None)>>)) :
      f \in ArbFields }
  \cup { Packet("p", t, None, NoLists(Some(OutMsg(FALSE, TRUE, f)), None)) :
           f \in SwapFields }

\* the values of the clock in the stream scenarios
StreamInstants == {0, deadAfter, deadAfter + 1}

\* the data of the stream scenarios: a datum that is null and a swap of 100 TON
ReconnectData == {Datum(FALSE, FalsyPayload), Datum(TRUE, PayloadSwap(100, 8))}

\* the values Math.random() takes for the jitter
JitterDraws == {Zero, R(1, 2), R(9, 10)}

\* the codes of a status: OK and UNAVAILABLE
StatusCodes == {0, 14}

\* the data of the deduplication scenarios: one transaction; the same one
\* together with another in a payload that is itself a swap of 100 TON; a
\* transaction and a null entry
DedupData ==
  { Datum(TRUE, Payload(None, Some(<<TxDeDust050>>), None, None, None, None)),
    Datum(TRUE, Payload(None, Some(<<TxDeDust050, TxPlain>>), None, None,
                        Some(OutMsg(FALSE, TRUE, FieldsAt(8, 100000000))), None)),
    Datum(TRUE, Payload(None, Some(<<TxSton060, NullTx>>), None, None, None, None)) }

\* the data of the subscription scenarios
SubscriptionData == {Datum(TRUE, Payload(None, Some(<<TxDeDust050>>), None, None, None, None))}

\* the values Math.random() takes for the jitter in the subscription scenarios
SubscriptionDraws == {Zero, R(9, 10)}

\* the streams that may have been created
StreamIds == 1..(MaxStreams + 1)

\* the packets of the placeholder scenarios: data without lists and messages,
\* data whose data field is a string without a swap indicator, and a swap of
\* 100 TON
PlaceholderPackets(t) ==
  { Packet("p", t, None, NoLists(None, None)),
    Packet("p", t, None, NoLists(None, Some(PayloadData(TRUE, FALSE, FieldShort)))),
    Packet("p", t, None, PayloadSwap(100, 8)) }

\* the partial configurations of the placeholder scenarios: minimal sizes from
\* 0 to Infinity (the number JSON.parse reads from 1e999), no thresholds of
\* profit and confidence, and no target pair
PlaceholderPatches ==
  { [minTargetSwapSize |-> Zero],
    [minTargetSwapSize |-> R(50, 1)],
    [minTargetSwapSize |-> R(1, 0)],
    [minProfitEstimate |-> R(-1, 1), minConfidence |-> Zero],
    [targetPairs |-> <<>>] }

\* the partial configurations of the reconfiguration scenarios
ConfigPatches(name) ==
  IF name = "arbitrage"
  THEN { [minConfidence |-> R(-10, 1), minProfitEstimate |-> R(-1, 100)],
         [enabled |-> FALSE] }
  ELSE { [enabled |-> FALSE],
         [targetPairs |-> <<"TON/USDC">>] }

\* the partial configurations of the price cache scenarios
ArbConfigPatches ==
  { [minPriceDifferencePercent |-> R(1, 1)],
    [minPriceDifferencePercent |-> R(5, 1)],
    [minConfidence |-> R(1, 2)] }

Filters == {None} \cup {Some(n) : n \in StrategyNames}

\* the data of the stream: lists of messages, one of them with a null entry, a
\* datum without serverTs, a datum that is null, external messages only, and a
\* datum that carries no list
StreamData ==
  { Datum(TRUE, Payload(None, Some(<<TxDeDust050>>), None, None, None, None)),
    Datum(TRUE, Payload(None, Some(<<TxSton060, NullTx>>), None, None, None, None)),
    Datum(TRUE, Payload(None, Some(<<TxPlain, TxSton051>>), None, None, None, None)),
    Datum(FALSE, Payload(None, Some(<<TxSton051>>), None, None, None, None)),
    Datum(FALSE, FalsyPayload),
    Datum(TRUE, Payload(None, None, None, Some(<<TxSton051>>), None, None)),
    Datum(TRUE, PayloadSwap(100, 8)) }

\* the values of a list of a packet: absent, empty, or the given list
ListShapes(list) == {None, Some(<<>>), Some(list)}

\* the payloads of the extraction scenarios: every combination of the four
\* lists, each list with a transaction of its own
ExtractPayloads ==
  {FalsyPayload} \cup
  { Payload(tr, me, ar, ex, None, None) :
      tr \in ListShapes(<<TxDeDust050>>), me \in ListShapes(<<TxSton051>>),
      ar \in ListShapes(<<TxSton060>>), ex \in ListShapes(<<TxPlain>>) }

\* the packets of the extraction scenarios, with and without a pre-extracted list
ExtractPackets(t) ==
  { Packet("p", t, pre, payload) :
      pre \in {None, Some(<<NullTx>>)}, payload \in ExtractPayloads }

\* the names given to the registry operations: the two strategies and a name no
\* strategy has
RegistryNames == StrategyNames \cup {"liquidation"}

\* the packets of the registry scenarios
RegistryPackets(t) ==
  { Packet("p", t, None, PayloadSwap(100, 8)) }

\* the partial configurations of the registry scenarios
RegistryPatches ==
  { [minConfidence |-> R(9, 10), maxSlippage |-> One] }

(***************************************************************************)
(* The state machine.                                                      *)
(***************************************************************************)
Returned(op, arg, threw, errors, value, notified) ==
  [op |-> op, arg |-> arg, threw |-> threw, errors |-> errors, value |-> value,
   notified |-> notified]

\* new StrategyManager(): the two default strategies, in this order
Init ==
  /\ strategies = <<"arbitrage", "sandwich">>
  /\ config = [n \in StrategyNames |-> DefaultConfig(n)]
  /\ hist = [n \in StrategyNames |-> <<>>]
  /\ cache = EmptyCache
  /\ store = <<>>
  /\ processed = <<>>
  /\ latest = <<>>
  /\ held = None
  /\ stream = SetupStreamHandlers(0)
  /\ subscription = NoSubscription
  /\ now = 0
  /\ ret = Returned("new", None, FALSE, <<>>, <<>>, None)

\* time passes
Tick(t) ==
  /\ t > now
  /\ now' = t
  /\ ret' = Returned("tick", None, FALSE, <<>>, <<>>, None)
  /\ UNCHANGED <<strategies, config, hist, cache, store, held, processed, latest, stream,
                 subscription>>

\* StrategyManager.analyzePacket(packet), while the store and the histories
\* hold no more than maxStore and maxHist opportunities
AnalyzePacketWithin(packet, rnds, maxStore, maxHist) ==
  \E r \in {AnalyzePacketResult(packet, rnds)} :
      /\ Len(r.store) <= maxStore
      /\ \A n \in StrategyNames : Len(r.hist[n]) <= maxHist
      /\ cache' = r.cache
      /\ hist' = r.hist
      /\ store' = r.store
      /\ ret' = Returned("analyzePacket", Some(packet), r.threw, r.errors, r.out, r.notified)
      /\ UNCHANGED <<strategies, config, held, now, processed, latest, stream, subscription>>

\* StrategyManager.analyzePacket(packet)
AnalyzePacket(packet, rnds) == AnalyzePacketWithin(packet, rnds, MaxStore, MaxHist)

\* StrategyManager.getOpportunities(limit, strategyFilter)
QueryOpportunities(limit, filter) ==
  \E r \in {GetOpportunities(store, limit, filter)} :
      /\ store' = r.store
      /\ ret' = Returned("getOpportunities", Some([limit |-> limit, filter |-> filter]),
                         FALSE, <<>>, r.value, None)
      /\ UNCHANGED <<strategies, config, hist, cache, held, now, processed, latest, stream,
                     subscription>>

UpdatedConfigOfAnyName(configs, name, partial) ==
  IF name \in DOMAIN configs THEN [configs EXCEPT ![name] = MergeConfig(@, partial)]
  ELSE configs

\* the configs after updateStrategyConfig: the strategy found in the registry
\* gets the merged config, a name that is not found changes nothing
UpdatedConfig(configs, name, partial) ==
  IF Registered(name) THEN [configs EXCEPT ![name] = MergeConfig(@, partial)]
  ELSE configs

EditedInPlace(h, name) == h

\* this.config = { ... }: the strategy's config is a new object, and a config
\* obtained before is no longer the one the strategy refers to
Replaced(h, name) ==
  IF IsSome(h) /\ Val(h).name = name THEN Some([Val(h) EXCEPT !.same = FALSE]) ELSE h

\* what a reader sees in the config it holds
HeldValue(h) == IF Val(h).same THEN config[Val(h).name] ELSE Val(h).value

\* StrategyManager.getStrategy(name)?.getConfig(): the config object itself
GetConfig(name) ==
  /\ Registered(name)
  /\ held' = Some([name |-> name, value |-> config[name], same |-> TRUE])
  /\ ret' = Returned("getConfig", Some([name |-> name]), FALSE, <<>>, <<>>, None)
  /\ UNCHANGED <<strategies, config, hist, cache, store, now, processed, latest, stream,
                 subscription>>

\* StrategyManager.registerStrategy(new ArbitrageStrategy()) or
\* registerStrategy(new SandwichStrategy()): Map.set keeps the place of a name
\* that is already a key and adds a new name at the end
RegisterStrategy(name) ==
  /\ strategies' = IF Registered(name) THEN strategies ELSE Append(strategies, name)
  /\ config' = [config EXCEPT ![name] = DefaultConfig(name)]
  /\ hist' = [hist EXCEPT ![name] = <<>>]
  /\ cache' = IF name = "arbitrage" THEN EmptyCache ELSE cache
  /\ held' = Replaced(held, name)
  /\ ret' = Returned("registerStrategy", Some([name |-> name]), FALSE, <<>>, <<>>, None)
  /\ UNCHANGED <<store, now, processed, latest, stream, subscription>>

\* StrategyManager.unregisterStrategy(strategyName)
UnregisterStrategy(name) ==
  /\ strategies' = SelectSeq(strategies, LAMBDA n : n # name)
  /\ ret' = Returned("unregisterStrategy", Some([name |-> name]), FALSE, <<>>, <<>>, None)
  /\ UNCHANGED <<config, hist, cache, store, held, now, processed, latest, stream,
                 subscription>>

\* StrategyManager.updateStrategyConfig(strategyName, config)
UpdateStrategyConfig(name, partial) ==
  /\ config' = UpdatedConfig(config, name, partial)
  /\ held' = IF Registered(name) THEN Replaced(held, name) ELSE held
  /\ ret' = Returned("updateStrategyConfig", Some([name |-> name, partial |-> partial]),
                     FALSE, <<>>, <<>>, None)
  /\ UNCHANGED <<strategies, hist, cache, store, now, processed, latest, stream, subscription>>

ClearedAll(opps, filter) == <<>>

\* the list clearOpportunities(strategyFilter) keeps
Cleared(opps, filter) ==
  IF IsSome(filter) THEN SelectSeq(opps, LAMBDA opp : opp.strategy # Val(filter))
  ELSE <<>>

\* StrategyManager.clearOpportunities(strategyFilter)
ClearOpportunities(filter) ==
  \E notify \in {GetOpportunities(Cleared(store, filter), NotifyLimit, None)} :
      /\ store' = notify.store
      /\ ret' = Returned("clearOpportunities", Some([filter |-> filter]),
                         FALSE, <<>>, <<>>, Some(notify.value))
      /\ UNCHANGED <<strategies, config, hist, cache, held, now, processed, latest, stream,
                     subscription>>

\* ArbitrageStrategy.updatePriceCache(dex, tokenPair, price) on a cache whose
\* capacity is SmallCacheSize
WritePrice(dex, pair, price) ==
  /\ cache' = UpdatePriceCacheWithin(cache, dex, pair, price, now, SmallCacheSize)
  /\ ret' = Returned("updatePriceCache", Some([dex |-> dex, pair |-> pair]), FALSE,
                     <<>>, <<>>, None)
  /\ UNCHANGED <<strategies, config, hist, store, processed, latest, held, now, stream,
                 subscription>>

\* opportunities.reduce((sum, opp) => sum + opp.profitEstimate, 0)
RECURSIVE SumProfit(_)
SumProfit(list) ==
  IF list = <<>> THEN Zero
  ELSE Add(SumProfit(SubSeq(list, 1, Len(list) - 1)), list[Len(list)].profitEstimate)

\* the entry of getStatistics for one strategy, computed from the strategy's
\* own getOpportunities() and getConfig()
StrategyStatistics(name) ==
  [name |-> name,
   enabled |-> config[name].enabled,
   opportunitiesCount |-> Len(hist[name]),
   totalProfit |-> SumProfit(hist[name]),
   averageProfit |-> IF Len(hist[name]) > 0
                     THEN Div(SumProfit(hist[name]), R(Len(hist[name]), 1)) ELSE Zero]

\* Array.from(this.strategies.entries()).map(...)
RECURSIVE StatisticsOf(_)
StatisticsOf(names) ==
  IF names = <<>> THEN <<>>
  ELSE <<StrategyStatistics(Head(names))>> \o StatisticsOf(Tail(names))

\* StrategyManager.getStatistics(): the value of ret is the list of the one
\* object returned
GetStatistics ==
  /\ ret' = Returned("getStatistics", None, FALSE, <<>>,
                     <<[totalStrategies |-> Len(strategies),
                        totalOpportunities |-> Len(store),
                        strategies |-> StatisticsOf(strategies)]>>,
                     None)
  /\ UNCHANGED <<strategies, config, hist, cache, store, processed, latest, held, now, stream,
                 subscription>>

\* extractTransactionsFromPacket(packet): nothing in it throws for a packet
\* that is an object, and its catch block returns the empty list
ExtractTransactions(packet) ==
  /\ ret' = Returned("extractTransactionsFromPacket", Some(packet), FALSE, <<>>,
                     ExtractTransactionsFromPacket(packet), None)
  /\ UNCHANGED <<strategies, config, hist, cache, store, processed, latest, held, now, stream,
                 subscription>>

\* the try block of stream.on("data", ...): the datum is wrapped into a packet
\* and processed; source is the stream that delivered it
Consume(datum, rnds, listener, limit, source) ==
  \E ps \in {OnDataResultWithin(ClientState, datum, rnds, listener, limit)} :
      /\ Len(ps.m.store) <= MaxStore
      /\ \A n \in StrategyNames : Len(ps.m.hist[n]) <= MaxHist
      /\ cache' = ps.m.cache
      /\ hist' = ps.m.hist
      /\ store' = ps.m.store
      /\ processed' = ps.processed
      /\ latest' = ps.latest
      /\ ret' = Returned("onData",
                         Some([datum |-> datum, listener |-> listener, source |-> source]),
                         ps.threw, <<>>, <<>>, None)
                @@ [calls |-> ps.calls, failed |-> ps.failed,
                    afterFailure |-> (ret.op = "onData" /\ ret.failed)]
      /\ UNCHANGED <<strategies, config, held, now>>

\* stream.on("data", ...) of the handler stream, the set of processed keys cut
\* back to limit
OnDataWithin(datum, rnds, listener, limit) ==
  /\ Consume(datum, rnds, listener, limit, 0)
  /\ stream' = DataReceived(stream, now)
  /\ UNCHANGED subscription

\* stream.on("data", ...)
OnData(datum, rnds, listener) == OnDataWithin(datum, rnds, listener, PROCESSED_LIMIT)

\* stream.on("error", ...)
OnError(rnd) ==
  /\ stream' = Reconnect([stream EXCEPT !.isConnected = FALSE], rnd)
  /\ ret' = Returned("onError", None, FALSE, <<>>, <<>>, None)
  /\ UNCHANGED <<strategies, config, hist, cache, store, processed, latest, held, now,
                 subscription>>

\* stream.on("status", ...): a status whose code is not 0 reconnects
OnStatus(code, rnd) ==
  /\ stream' = IF code # 0 THEN Reconnect([stream EXCEPT !.isConnected = FALSE], rnd)
               ELSE stream
  /\ ret' = Returned("onStatus", Some(code), FALSE, <<>>, <<>>, None)
  /\ UNCHANGED <<strategies, config, hist, cache, store, processed, latest, held, now,
                 subscription>>

\* a pending timeout of the handler fires; throws tells whether subscribing
\* again throws
OnTimeout(timeout, throws, rnd) ==
  /\ timeout \in stream.timeouts
  /\ stream' = TimeoutCallback([stream EXCEPT !.timeouts = @ \ {timeout}],
                               timeout, throws, rnd)
  /\ ret' = Returned("onTimeout", Some(timeout), throws, <<>>, <<>>, None)
  /\ UNCHANGED <<strategies, config, hist, cache, store, processed, latest, held, now,
                 subscription>>

\* the interval of the health check fires
OnPing(rnd) ==
  /\ stream.pingTimer
  /\ stream' = PingCallback(stream, now, rnd)
  /\ ret' = Returned("onPing", None, FALSE, <<>>, <<>>, None)
  /\ UNCHANGED <<strategies, config, hist, cache, store, processed, latest, held, now,
                 subscription>>

\* stream.cleanup()
Cleanup ==
  /\ stream' = CleanedUp(stream)
  /\ ret' = Returned("cleanup", None, FALSE, <<>>, <<>>, None)
  /\ UNCHANGED <<strategies, config, hist, cache, store, processed, latest, held, now,
                 subscription>>

\* SubscriptionManager.startSubscription('workchain', 0)
StartSubscription ==
  /\ IsSome(subscription.registered) \/ Len(subscription.streams) < MaxStreams
  /\ subscription' = StartedSubscription(subscription, now)
  /\ ret' = Returned("startSubscription", None, FALSE, <<>>, <<"workchain-0">>, None)
  /\ UNCHANGED <<strategies, config, hist, cache, store, processed, latest, held, now, stream>>

\* SubscriptionManager.stopSubscription('workchain-0'), which returns "true"
\* when the id was registered and "false" when it was not
StopSubscription ==
  /\ subscription' = StoppedSubscription(subscription)
  /\ ret' = Returned("stopSubscription", None, FALSE, <<>>,
                     <<IF IsSome(subscription.registered) THEN "true" ELSE "false">>, None)
  /\ UNCHANGED <<strategies, config, hist, cache, store, processed, latest, held, now, stream>>

\* SubscriptionManager.stopAllSubscriptions()
StopAllSubscriptions ==
  /\ subscription' = StoppedSubscription(subscription)
  /\ ret' = Returned("stopAllSubscriptions", None, FALSE, <<>>, <<>>, None)
  /\ UNCHANGED <<strategies, config, hist, cache, store, processed, latest, held, now, stream>>

\* stream.on("data", ...) of the i-th stream of the subscription
OnStreamData(i, datum, rnds) ==
  /\ i \in LiveStreams(subscription)
  /\ Consume(datum, rnds, "returns", PROCESSED_LIMIT, i)
  /\ subscription' = [subscription EXCEPT !.streams[i].handler = DataReceived(@, now),
                                          !.failures = 0]
  /\ UNCHANGED stream

\* stream.on("error", ...) of the i-th stream: the stream has failed
OnStreamError(i, rnd) ==
  /\ i \in LiveStreams(subscription)
  /\ subscription' =
       [subscription EXCEPT
          !.streams[i] = [state |-> "failed",
                          handler |-> Reconnect([@.handler EXCEPT !.isConnected = FALSE], rnd)],
          !.failures = @ + 1]
  /\ ret' = Returned("onStreamError", Some(i), FALSE, <<>>, <<>>, None)
  /\ UNCHANGED <<strategies, config, hist, cache, store, processed, latest, held, now, stream>>

\* stream.on("status", ...) of the i-th stream: the status OK of a stream that
\* ends, or the status of the failure of a stream that has failed
OnStreamStatus(i, code, rnd) ==
  /\ i \in 1..Len(subscription.streams)
  /\ subscription.streams[i].state = (IF code = 0 THEN "open" ELSE "failed")
  /\ subscription' =
       [subscription EXCEPT
          !.streams[i] =
             [state |-> "closed",
              handler |-> IF code # 0
                          THEN Reconnect([@.handler EXCEPT !.isConnected = FALSE], rnd)
                          ELSE @.handler]]
  /\ ret' = Returned("onStreamStatus", Some(i), FALSE, <<>>, <<>>, None)
  /\ UNCHANGED <<strategies, config, hist, cache, store, processed, latest, held, now, stream>>

\* the interval of the health check of the i-th stream fires
OnStreamPing(i, rnd) ==
  /\ i \in 1..Len(subscription.streams)
  /\ subscription.streams[i].handler.pingTimer
  /\ subscription' =
       [subscription EXCEPT !.streams[i].handler = PingCallback(@, now, rnd)]
  /\ ret' = Returned("onStreamPing", Some(i), FALSE, <<>>, <<>>, None)
  /\ UNCHANGED <<strategies, config, hist, cache, store, processed, latest, held, now, stream>>

\* a pending timeout of the handler of the i-th stream fires: the periodic one
\* reconnects, the other one subscribes again, which creates a stream
OnStreamTimeout(i, timeout, rnd) ==
  /\ i \in 1..Len(subscription.streams)
  /\ timeout \in subscription.streams[i].handler.timeouts
  /\ timeout.periodic \/ Len(subscription.streams) < MaxStreams
  /\ \E fired \in {[subscription EXCEPT !.streams[i].handler =
                        TimeoutCallback([@ EXCEPT !.timeouts = @ \ {timeout}],
                                        timeout, FALSE, rnd)]} :
       subscription' = IF timeout.periodic THEN fired ELSE SubscribeByWorkchain(fired, now)
  /\ ret' = Returned("onStreamTimeout", Some(i), FALSE, <<>>, <<>>, None)
  /\ UNCHANGED <<strategies, config, hist, cache, store, processed, latest, held, now, stream>>

\* the manager and its store: packets, queries and clearing
Next ==
  \/ \E packet \in Packets(now), rnds \in ZeroDraws : AnalyzePacket(packet, rnds)
  \/ \E limit \in 0..MaxLimit, filter \in Filters : QueryOpportunities(limit, filter)
  \/ \E filter \in Filters : ClearOpportunities(filter)

Spec == Init /\ [][Next]_vars

\* the strategies under reconfiguration
NextConfig ==
  \/ \E packet \in ConfigPackets(now), rnds \in RandomInputs : AnalyzePacket(packet, rnds)
  \/ \E name \in StrategyNames : \E partial \in ConfigPatches(name) :
       UpdateStrategyConfig(name, partial)

SpecConfig == Init /\ [][NextConfig]_vars

\* the arbitrage strategy and its price cache as time passes
NextCache ==
  \/ \E t \in Instants : Tick(t)
  \/ \E packet \in ArbPackets(now), rnds \in RandomInputs : AnalyzePacket(packet, rnds)
  \/ \E partial \in ArbConfigPatches : UpdateStrategyConfig("arbitrage", partial)

SpecCache == Init /\ [][NextCache]_vars

\* the store grows beyond the size of a notification
NextNotify ==
  \/ \E packet \in NotifyPackets(now), rnds \in ZeroDraws :
       AnalyzePacketWithin(packet, rnds, MaxNotifyStore, MaxNotifyStore)
  \/ /\ LargeSwaps < MaxLargeSwaps
     /\ \E rnds \in ZeroDraws :
          AnalyzePacketWithin(LargeSwapPacket(now), rnds, MaxNotifyStore, MaxNotifyStore)

SpecNotify == Init /\ [][NextNotify]_vars

\* the client consumes the stream while the clock advances
NextPipeline ==
  \/ \E t \in Instants : Tick(t)
  \/ \E datum \in StreamData, rnds \in ZeroDraws, listener \in Listeners :
       OnData(datum, rnds, listener)

SpecPipeline == Init /\ [][NextPipeline]_vars

\* prices are written to a small cache as time passes
NextCapacity ==
  \/ \E t \in Instants : Tick(t)
  \/ \E dex \in {"DeDust", "Ston.fi"}, pair \in Pairs : WritePrice(dex, pair, One)

SpecCapacity == Init /\ [][NextCapacity]_vars

\* swaps of several sizes while the minimal size of a target changes
NextSandwich ==
  \/ \E packet \in SandwichPackets(now), rnds \in RandomInputs : AnalyzePacket(packet, rnds)
  \/ \E partial \in SandwichPatches : UpdateStrategyConfig("sandwich", partial)

SpecSandwich == Init /\ [][NextSandwich]_vars

\* both strategies at work while the thresholds of the arbitrage change
NextThreshold ==
  \/ \E packet \in ThresholdPackets(now), rnds \in RandomInputs : AnalyzePacket(packet, rnds)
  \/ \E partial \in ThresholdPatches : UpdateStrategyConfig("arbitrage", partial)

SpecThreshold == Init /\ [][NextThreshold]_vars

\* payloads whose fields are decoded by trial
NextDecode ==
  \E packet \in DecodePackets(now), rnds \in RandomInputs : AnalyzePacket(packet, rnds)

SpecDecode == Init /\ [][NextDecode]_vars

\* the handler of one stream: data, errors, statuses, timeouts and the health
\* check as time passes
NextStream ==
  \/ \E t \in StreamInstants : Tick(t)
  \/ \E datum \in ReconnectData, rnds \in ZeroDraws : OnData(datum, rnds, "returns")
  \/ \E rnd \in JitterDraws : OnError(rnd)
  \/ \E code \in StatusCodes, rnd \in JitterDraws : OnStatus(code, rnd)
  \/ \E timeout \in stream.timeouts, throws \in BOOLEAN, rnd \in JitterDraws :
       OnTimeout(timeout, throws, rnd)
  \/ \E rnd \in JitterDraws : OnPing(rnd)
  \/ Cleanup

SpecStream == Init /\ [][NextStream]_vars

\* the client consumes data whose transactions repeat, the set of processed
\* keys being cut back to SmallProcessedLimit
NextDedup ==
  \/ \E t \in Instants : Tick(t)
  \/ \E datum \in DedupData, rnds \in ZeroDraws :
       OnDataWithin(datum, rnds, "returns", SmallProcessedLimit)

SpecDedup == Init /\ [][NextDedup]_vars

\* a subscription is started and stopped while its streams deliver data, fail
\* and are created again
NextSubscription ==
  \/ \E t \in StreamInstants : Tick(t)
  \/ StartSubscription
  \/ StopSubscription
  \/ StopAllSubscriptions
  \/ \E i \in StreamIds, datum \in SubscriptionData, rnds \in ZeroDraws :
       OnStreamData(i, datum, rnds)
  \/ \E i \in StreamIds, rnd \in SubscriptionDraws : OnStreamError(i, rnd)
  \/ \E i \in StreamIds, code \in StatusCodes, rnd \in SubscriptionDraws :
       OnStreamStatus(i, code, rnd)
  \/ \E i \in StreamIds, rnd \in SubscriptionDraws : OnStreamPing(i, rnd)
  \/ \E i \in StreamIds, timeout \in PendingTimeouts(subscription), rnd \in SubscriptionDraws :
       OnStreamTimeout(i, timeout, rnd)

SpecSubscription == Init /\ [][NextSubscription]_vars

\* packets without swap details while the configuration of the sandwich
\* strategy changes
NextPlaceholder ==
  \/ \E t \in Instants : Tick(t)
  \/ \E packet \in PlaceholderPackets(now), rnds \in RandomInputs : AnalyzePacket(packet, rnds)
  \/ \E partial \in PlaceholderPatches : UpdateStrategyConfig("sandwich", partial)

SpecPlaceholder == Init /\ [][NextPlaceholder]_vars

\* packets, clearing and statistics
NextStatistics ==
  \/ \E packet \in StorePackets(now), rnds \in ZeroDraws : AnalyzePacket(packet, rnds)
  \/ \E filter \in Filters : ClearOpportunities(filter)
  \/ GetStatistics

SpecStatistics == Init /\ [][NextStatistics]_vars

\* the Transaction Extractor applied to packets of every shape
NextExtract == \E packet \in ExtractPackets(now) : ExtractTransactions(packet)

SpecExtract == Init /\ [][NextExtract]_vars

\* the registry: strategies come and go while packets are analyzed and
\* configurations are read and updated
NextRegistry ==
  \/ \E packet \in RegistryPackets(now), rnds \in ZeroDraws : AnalyzePacket(packet, rnds)
  \/ \E name \in StrategyNames : RegisterStrategy(name)
  \/ \E name \in RegistryNames : UnregisterStrategy(name)
  \/ \E name \in RegistryNames, partial \in RegistryPatches :
       UpdateStrategyConfig(name, partial)
  \/ \E name \in StrategyNames : GetConfig(name)
  \/ \E filter \in Filters : ClearOpportunities(filter)

SpecRegistry == Init /\ [][NextRegistry]_vars

(***************************************************************************)
(* Properties.                                                             *)
(***************************************************************************)
\* the opportunities a strategy appended to its own history in this step
NewOf(name) == SubSeq(hist'[name], Len(hist[name]) + 1, Len(hist'[name]))

\* the concatenation, in registry order, of what the strategies that did not
\* throw appended in this step
RECURSIVE ProducedByHealthy(_, _)
ProducedByHealthy(names, failed) ==
  IF names = <<>> THEN <<>>
  ELSE (IF SeqContains(failed, Head(names)) THEN <<>> ELSE NewOf(Head(names)))
       \o ProducedByHealthy(Tail(names), failed)

Range(seq) == {seq[i] : i \in 1..Len(seq)}

\* C1: when a strategy throws while a packet is analyzed, analyzePacket does not
\* throw, returns exactly what the other strategies produced for the packet,
\* and the store grows by exactly these opportunities
C1_FailureIsolation ==
  [][(ret'.op = "analyzePacket" /\ ret'.errors # <<>>) =>
       /\ ~ret'.threw
       /\ ret'.value = ProducedByHealthy(strategies, ret'.errors)
       /\ Range(store') = Range(store) \cup Range(ret'.value)
       /\ Len(store') = Len(store) + Len(ret'.value)]_vars

\* the arbitrage strategy threw, and the sandwich opportunity of the same packet
\* was returned and stored
C1_Witness ==
  /\ ret.op = "analyzePacket"
  /\ ret.errors = <<"arbitrage">>
  /\ Len(ret.value) = 1
  /\ ret.value[1].strategy = "sandwich"
  /\ ret.value[1] \in Range(store)

Matching(opps, filter) ==
  IF IsSome(filter) THEN FilterByStrategy(opps, Val(filter)) ELSE opps

NonIncreasing(list) ==
  \A i \in 1..(Len(list) - 1) : Ge(list[i].profitEstimate, list[i + 1].profitEstimate)

\* list holds distinct entries of the store that match the filter, sorted, and
\* no matching entry left out has a higher profit than one of the list
HighestMatching(list, filter) ==
  /\ Range(list) \subseteq Range(Matching(store, filter))
  /\ Cardinality(Range(list)) = Len(list)
  /\ NonIncreasing(list)
  /\ \A o \in Range(Matching(store, filter)) \ Range(list) :
       \A i \in 1..Len(list) : Ge(list[i].profitEstimate, o.profitEstimate)

\* C3 as stated: getOpportunities(N, filter) returns at most N opportunities for
\* every N >= 0, the N highest-profit entries matching the filter
C3_AtMostLimit ==
  ret.op = "getOpportunities" =>
    /\ Len(ret.value) <= Val(ret.arg).limit
    /\ HighestMatching(ret.value, Val(ret.arg).filter)

\* C3 amended: for N >= 1 getOpportunities(N, filter) returns min(N, matching)
\* opportunities, for N = 0 it returns all the matching ones; in both cases they
\* match the filter, are ordered by profitEstimate non-increasing and are the
\* highest-profit matching entries of the store
C3_LimitOrAll ==
  ret.op = "getOpportunities" =>
    LET limit == Val(ret.arg).limit
        matching == Len(Matching(store, Val(ret.arg).filter))
    IN  /\ Len(ret.value) = IF limit >= 1 /\ limit < matching THEN limit ELSE matching
        /\ HighestMatching(ret.value, Val(ret.arg).filter)

\* a query with limit 1 on a store of two entries of different profit
C3_Witness ==
  /\ ret.op = "getOpportunities"
  /\ Val(ret.arg).limit = 1
  /\ Len(ret.value) = 1
  /\ \E o \in Range(Matching(store, Val(ret.arg).filter)) :
       Lt(o.profitEstimate, ret.value[1].profitEstimate)

\* C4: clearOpportunities(S) removes from the store exactly the opportunities of
\* strategy S: afterwards getOpportunities(0, S) is empty and getOpportunities(0, S')
\* is what it was before, for every other S'
C4_ClearOnlyNamed ==
  [][(ret'.op = "clearOpportunities" /\ IsSome(Val(ret'.arg).filter)) =>
       LET S == Val(Val(ret'.arg).filter)
       IN  /\ GetOpportunities(store', 0, Some(S)).value = <<>>
           /\ Range(store') = {o \in Range(store) : o.strategy # S}
           /\ \A T \in StrategyNames \ {S} :
                GetOpportunities(store', 0, Some(T)).value
                  = GetOpportunities(store, 0, Some(T)).value]_vars

\* the arbitrage opportunities were cleared and a sandwich opportunity remains
C4_Witness ==
  /\ ret.op = "clearOpportunities"
  /\ Val(ret.arg).filter = Some("arbitrage")
  /\ hist["arbitrage"] # <<>>
  /\ \E o \in Range(store) : o.strategy = "sandwich"

\* C5: every opportunity of the store has a confidence in [0, 1], and a
\* profitEstimate >= 0 when the minProfitEstimate of its strategy is not negative
C5_ConfidenceAndProfitInRange ==
  \A o \in Range(store) :
    /\ Ge(o.confidence, Zero) /\ Le(o.confidence, One)
    /\ Ge(config[o.strategy].minProfitEstimate, Zero) => Ge(o.profitEstimate, Zero)

\* C6: a cached price written at time T is returned by a read at time t exactly
\* when t - T <= 60000 and is absent for a later read; an entry that is still
\* fresh is not evicted; no arbitrage opportunity is computed from a cached
\* price older than 60000 ms
C6_PriceCacheTTL ==
  /\ [](\A d \in Dexes, p \in Pairs, t \in Instants :
          (IsSome(cache[d][p]) /\ t >= now) =>
            GetPriceFromCache(cache, d, p, t).price
              = IF t - Val(cache[d][p]).timestamp <= 60000
                THEN Some(Val(cache[d][p]).price) ELSE None)
  /\ [](\A o \in Range(hist["arbitrage"]) : o.aux.cachedAge <= 60000)
  /\ [][\A d \in Dexes, p \in Pairs :
          (IsSome(cache[d][p]) /\ now' - Val(cache[d][p]).timestamp <= 60000) =>
            /\ IsSome(cache'[d][p])
            /\ Val(cache'[d][p]).timestamp >= Val(cache[d][p]).timestamp]_vars

\* an opportunity was computed from a price cached exactly 60000 ms before, and
\* the same entry, now 60001 ms old, is still stored but no longer readable
C6_Witness ==
  /\ now = 60001
  /\ cache["DeDust"]["TON/USDT"] = Some([price |-> R(1, 2), timestamp |-> 0, order |-> 1])
  /\ \E o \in Range(hist["arbitrage"]) : o.aux.cachedAge = 60000

\* the arbitrage strategy holds a fresh price 0.50 of TON/USDT on DeDust and has
\* just observed 0.51 for TON/USDT on Ston.fi
C7_Scenario ==
  /\ ret.op = "analyzePacket"
  /\ ~ret.threw
  /\ TxSton051 \in Range(ArbExtractTransactions(Val(ret.arg)))
  /\ IsSome(cache["DeDust"]["TON/USDT"])
  /\ Val(cache["DeDust"]["TON/USDT"]).price = R(1, 2)
  /\ now - Val(cache["DeDust"]["TON/USDT"]).timestamp <= PRICE_CACHE_TTL

C7_Emitted ==
  \E o \in Range(ret.value) :
    /\ o.strategy = "arbitrage"
    /\ o.details.tokenPair = "TON/USDT"
    /\ o.details.buyDex = "DeDust"
    /\ o.details.sellDex = "Ston.fi"
    /\ o.confidence = R(29, 50)

\* C7 as stated: with minPriceDifferencePercent = 1 and every other setting at its
\* default, observing 0.51 on DexB against a fresh 0.50 of DexA emits an
\* opportunity with buyDex = DexA and sellDex = DexB
C7_EmitsAtDefaults ==
  (C7_Scenario
     /\ config["arbitrage"] = [ArbDefaultConfig EXCEPT !.minPriceDifferencePercent = One])
    => C7_Emitted

\* C7 amended: with minPriceDifferencePercent = 1, a minConfidence of at most 0.58
\* (the confidence of this opportunity; the default 0.7 rejects it) and every
\* other setting at its default, the opportunity with buyDex = DexA and
\* sellDex = DexB is emitted
C7_EmitsWhenConfidenceAccepted ==
  (C7_Scenario
     /\ Le(config["arbitrage"].minConfidence, R(29, 50))
     /\ config["arbitrage"] =
          [ArbDefaultConfig EXCEPT !.minPriceDifferencePercent = One,
                                   !.minConfidence = config["arbitrage"].minConfidence])
    => C7_Emitted

C7_Witness ==
  /\ C7_Scenario
  /\ config["arbitrage"] =
       [ArbDefaultConfig EXCEPT !.minPriceDifferencePercent = One, !.minConfidence = R(1, 2)]
  /\ C7_Emitted

\* |p1 - p2| / min(p1, p2) * 100 over the observed and the cached price
PriceDifferenceOf(o) ==
  Mul(Div(MathAbs(Sub(o.aux.observedPrice, o.aux.cachedPrice)),
          MathMin(o.aux.observedPrice, o.aux.cachedPrice)), R(100, 1))

\* C8: no arbitrage opportunity is emitted whose price difference is below the
\* minPriceDifferencePercent in force when the packet is analyzed
C8_NoEmissionBelowMinDifference ==
  [][\A o \in Range(NewOf("arbitrage")) :
       /\ Ge(PriceDifferenceOf(o), config["arbitrage"].minPriceDifferencePercent)
       /\ o.details.priceDifferencePercent = PriceDifferenceOf(o)]_vars

\* prices 0.50 and 0.51, both fresh, compared under minPriceDifferencePercent = 5
\* and a minConfidence that would accept the opportunity: nothing is emitted
C8_Witness ==
  /\ C7_Scenario
  /\ config["arbitrage"].minPriceDifferencePercent = R(5, 1)
  /\ config["arbitrage"].minConfidence = R(1, 2)
  /\ ret.value = <<>>

\* C9: no sandwich opportunity is emitted whose targetSwapSize is below the
\* configured minTargetSwapSize or whose tokenPair is not in the configured
\* targetPairs
C9_NoEmissionOutsideTargets ==
  [][\A o \in Range(NewOf("sandwich")) :
       /\ Ge(o.details.targetSwapSize, config["sandwich"].minTargetSwapSize)
       /\ SeqContains(config["sandwich"].targetPairs, o.details.tokenPair)]_vars

\* a swap of 100 TON of TON/USDT analyzed when the target pairs are TON/USDC only
C9_Witness ==
  /\ ret.op = "analyzePacket"
  /\ Val(ret.arg).data = PayloadSwap(100, 8)
  /\ config["sandwich"].targetPairs = <<"TON/USDC">>
  /\ ret.value = <<>>

\* C10: a registered strategy whose config has enabled = false contributes no
\* opportunity to the list returned by analyzePacket
C10_OnlyEnabledContribute ==
  ret.op = "analyzePacket" =>
    \A o \in Range(ret.value) : config[o.strategy].enabled

\* C11: for each registered strategy S, the entries of the manager's store with
\* strategy = S are, as a set, the strategy's own history S.getOpportunities()
C11_StoreMatchesHistories ==
  \A n \in Range(strategies) : Range(FilterByStrategy(store, n)) = Range(hist[n])

\* C12: getOpportunities is a read-only query: every call of it, the one a
\* reader makes and the one analyzePacket makes with limit 20 to build the
\* notification, leaves the store as the writer appended it, the same entries
\* in the same (append) order
C12_QueryLeavesStore ==
  [][/\ ret'.op = "getOpportunities" => store' = store
     /\ ret'.op = "analyzePacket" /\ IsSome(ret'.notified) => store' = store \o ret'.value]_vars

\* C13: after any sequence of configuration updates, the minConfidence of every
\* registered strategy lies within [0, 1]
C13_MinConfidenceInRange ==
  \A n \in Range(strategies) :
    Ge(config[n].minConfidence, Zero) /\ Le(config[n].minConfidence, One)

\* C14: updateStrategyConfig with a name that is not in the registry raises no
\* error and leaves every strategy's config, the registry and the store unchanged
C14_UnknownNameIsNoOp ==
  [][ret'.op = "updateStrategyConfig" /\ ~Registered(Val(ret'.arg).name) =>
       /\ ~ret'.threw
       /\ config' = config
       /\ strategies' = strategies
       /\ store' = store]_vars

\* a name that left the registry is updated while the store holds opportunities
C14_Witness ==
  /\ ret.op = "updateStrategyConfig"
  /\ Val(ret.arg).name = "sandwich"
  /\ ~Registered("sandwich")
  /\ store # <<>>
  /\ config["sandwich"] = SandwichDefaultConfig

\* C15: analyzePacket fires 'opportunitiesUpdated' once when the packet produced
\* an opportunity and not at all when it produced none; the new opportunities
\* are in the store by then, and the payload is the 20 highest-profit
\* opportunities of the store, all of them when the store holds fewer
C15_NotifiedWithTopTwenty ==
  ret.op = "analyzePacket" =>
    /\ IsSome(ret.notified) <=> ret.value # <<>>
    /\ IsSome(ret.notified) =>
         /\ Range(ret.value) \subseteq Range(store)
         /\ Len(Val(ret.notified)) = IF Len(store) < 20 THEN Len(store) ELSE 20
         /\ HighestMatching(Val(ret.notified), None)

\* a notification sent when the store holds 21 opportunities: one of them, of
\* a lower profit than the first of the payload, is left out
C15_Witness ==
  /\ ret.op = "analyzePacket"
  /\ IsSome(ret.notified)
  /\ Len(store) = 21
  /\ Len(Val(ret.notified)) = 20
  /\ \E o \in Range(store) \ Range(Val(ret.notified)) :
       Lt(o.profitEstimate, Val(ret.notified)[1].profitEstimate)

\* the first transaction extracted from the datum is one the client has not
\* processed yet
FirstIsNew(datum) ==
  /\ datum.serverTs
  /\ ~datum.payload.falsy
  /\ \E txs \in {ExtractTransactionsFromPacket(Packet("p", now, None, datum.payload))} :
       /\ txs # <<>>
       /\ ~txs[1].null
       /\ ~SeqContains(processed, TxHash(txs[1]))

\* C16: processMempoolPacket never throws, and after a datum whose processing
\* failed (the datum was malformed, a transaction was null, or the subscriber of
\* the notification threw) the next datum is still extracted and, when its
\* first transaction is new, given to analyzePacket
C16_KeepsConsuming ==
  [][ret'.op = "onData" =>
       /\ ~ret'.threw
       /\ (ret'.afterFailure /\ FirstIsNew(Val(ret'.arg).datum)) => ret'.calls >= 1]_vars

\* after a datum that failed, a datum is analyzed and produces an opportunity
C16_Witness ==
  /\ ret.op = "onData"
  /\ ret.afterFailure
  /\ ret.calls >= 1
  /\ latest # <<>>

\* the first of the candidate lists that is there, the empty list when none is
RECURSIVE FirstList(_)
FirstList(candidates) ==
  IF candidates = <<>> THEN <<>>
  ELSE IF IsSome(Head(candidates)) THEN Val(Head(candidates))
  ELSE FirstList(Tail(candidates))

\* the lists extractTransactionsFromPacket tries, in order
Candidates(packet) ==
  IF packet.data.falsy THEN <<packet.transactions>>
  ELSE <<packet.transactions, packet.data.transactions, packet.data.messages,
         packet.data.array, packet.data.externalMessages>>

\* C17: extractTransactionsFromPacket returns the first list found among the
\* packet's pre-extracted transactions, payload.transactions, payload.messages,
\* the payload itself when it is a list and payload.externalMessages, in this
\* order; it returns the empty list when there is none and never raises
C17_FirstListInOrder ==
  ret.op = "extractTransactionsFromPacket" =>
    /\ ~ret.threw
    /\ ret.value = FirstList(Candidates(Val(ret.arg)))

\* the payload carries messages and external messages but no transactions: the
\* messages are returned
C17_Witness ==
  /\ ret.op = "extractTransactionsFromPacket"
  /\ Val(ret.arg).transactions = None
  /\ Val(ret.arg).data = Payload(None, Some(<<TxSton051>>), None, Some(<<TxPlain>>), None, None)
  /\ ret.value = <<TxSton051>>

\* C18: for every packet, the list of transactions the arbitrage strategy
\* analyzes when the packet is given to analyzePacket is the list
\* extractTransactionsFromPacket returns for the packet
C18_SameExtraction ==
  ret.op = "extractTransactionsFromPacket" =>
    ArbExtractTransactions(Val(ret.arg)) = ret.value

\* C19: updateConfig(partial) merges: afterwards every field of the partial has
\* the partial's value and every other field keeps its value; the config is
\* replaced by a new object, so a config obtained from getConfig before the
\* update still reads as it did
C19_UpdateMerges ==
  [][ret'.op = "updateStrategyConfig" /\ Registered(Val(ret'.arg).name) =>
       LET name == Val(ret'.arg).name
           partial == Val(ret'.arg).partial
       IN  /\ DOMAIN config'[name] = DOMAIN config[name] \cup DOMAIN partial
           /\ \A k \in DOMAIN partial : config'[name][k] = partial[k]
           /\ \A k \in DOMAIN config[name] \ DOMAIN partial :
                config'[name][k] = config[name][k]
           /\ IsSome(held) => HeldValue(held)' = HeldValue(held)]_vars

\* the config of the sandwich strategy was obtained and the strategy was updated
\* afterwards: the held config has the old minConfidence, the strategy the new
\* one and the added field
C19_Witness ==
  /\ ret.op = "updateStrategyConfig"
  /\ Val(ret.arg).name = "sandwich"
  /\ Registered("sandwich")
  /\ IsSome(held)
  /\ Val(held).name = "sandwich"
  /\ HeldValue(held) = SandwichDefaultConfig
  /\ config["sandwich"].minConfidence = R(9, 10)
  /\ config["sandwich"].maxSlippage = One
  /\ config["sandwich"].targetPairs = SandwichDefaultConfig.targetPairs

\* C20: every opportunity of the manager's store names a strategy that is in
\* the registry
C20_StoreNamesRegistered ==
  \A o \in Range(store) : Registered(o.strategy)

\* C21: in the result of getStatistics, totalOpportunities is the sum of the
\* opportunity counts reported for the registered strategies, and the count and
\* the total profit reported for a strategy are those of the opportunities
\* getOpportunities(0, name) returns for it
C21_StatisticsConsistent ==
  ret.op = "getStatistics" =>
    /\ R(ret.value[1].totalOpportunities, 1) =
         SumProfit([i \in 1..Len(ret.value[1].strategies) |->
                      [profitEstimate |-> R(ret.value[1].strategies[i].opportunitiesCount, 1)]])
    /\ \A i \in 1..Len(ret.value[1].strategies) :
         \E s \in {ret.value[1].strategies[i]} :
           /\ s.opportunitiesCount = Len(FilterByStrategy(store, s.name))
           /\ s.totalProfit = SumProfit(SortByProfit(FilterByStrategy(store, s.name)))

Removed(d) == {p \in Pairs : IsSome(cache[d][p]) /\ ~IsSome(cache'[d][p])}

\* C23: after every updatePriceCache call each venue holds at most as many
\* entries as the capacity allows; every entry removed is at least as old as
\* every entry kept, and the entry just written is still there
C23_CacheCapacity ==
  [][ret'.op = "updatePriceCache" =>
       /\ \A d \in Dexes : Cardinality(CachedPairs(cache', d)) <= SmallCacheSize
       /\ \A d \in Dexes : \A p \in Removed(d) : \A q \in CachedPairs(cache', d) :
            Val(cache[d][p]).timestamp <= Val(cache'[d][q]).timestamp
       /\ IsSome(cache'[Val(ret'.arg).dex][Val(ret'.arg).pair])
       /\ Val(cache'[Val(ret'.arg).dex][Val(ret'.arg).pair]).timestamp = now']_vars

\* a third pair is written at the instant the other two were written: the
\* venue holds two entries of that instant, the one just written among them
C23_Witness ==
  /\ ret.op = "updatePriceCache"
  /\ Val(ret.arg).dex = "DeDust"
  /\ Cardinality(CachedPairs(cache, "DeDust")) = SmallCacheSize
  /\ \E p \in Pairs : ~IsSome(cache["DeDust"][p])
  /\ \A p \in CachedPairs(cache, "DeDust") : Val(cache["DeDust"][p]).timestamp = now
  /\ Val(cache["DeDust"][Val(ret.arg).pair]).order = SmallCacheSize

(***************************************************************************)
(* C24.  The price impact of a swap.                                       *)
(***************************************************************************)
\* min(0.1 + rate * (swapSize - minSize), 5)
ImpactAtRate(swapSize, minSize, rate) ==
  MathMin(Add(R(1, 10), Mul(rate, Sub(swapSize, minSize))), R(5, 1))

\* the swap of the packet of a step of analyzePacket, when the sandwich
\* strategy reads one that is on a targeted pair and not below the minimum
SwapOf(r, c) ==
  IF r.op = "analyzePacket" /\ ~r.arg[1].data.falsy
  THEN ExtractSwapDetails(r.arg[1].data, c, Zero)
  ELSE None

SwapAnalyzed(r, c) ==
  /\ IsSome(SwapOf(r, c))
  /\ ~Val(SwapOf(r, c)).fallback
  /\ SeqContains(c.targetPairs, Val(SwapOf(r, c)).tokenPair)
  /\ Ge(Val(SwapOf(r, c)).swapSize, c.minTargetSwapSize)

\* the sandwich opportunities of ret
SandwichOut(r) == SelectSeq(r.value, LAMBDA o : o.strategy = "sandwich")

\* at the given rate per TON above the minimum: the sandwich strategy, at its
\* default thresholds of profit and confidence, emits an opportunity for a
\* swap exactly when the impact is not below 0.5, and the opportunity carries
\* that impact
ImpactRule(rate) ==
  \A swap \in {SwapOf(ret', config["sandwich"])} :
    SwapAnalyzed(ret', config["sandwich"]) =>
      \A impact \in {ImpactAtRate(Val(swap).swapSize,
                                  config["sandwich"].minTargetSwapSize, rate)} :
        /\ Lt(impact, R(1, 2)) <=> SandwichOut(ret') = <<>>
        /\ \A i \in 1..Len(SandwichOut(ret')) :
             /\ SandwichOut(ret')[i].details.estimatedPriceImpact = impact
             /\ SandwichOut(ret')[i].details.targetSwapSize = Val(swap).swapSize

\* C24, as the code has it: the price impact of a sandwich target is
\* min(0.1 + 0.005 * (swapSize - minTargetSwapSize), 5) percent, that is 0.05
\* for each 10 TON above the minimum, and the swap is rejected exactly when
\* this impact is below 0.5: a swap 80 above the minimum passes, a swap 8 above
\* it does not
C24_ImpactPerTenUnits == [][ImpactRule(R(5, 1000))]_vars

\* C24, as stated: the price impact is min(0.1 + 0.05 * (swapSize -
\* minTargetSwapSize), 5) percent and the swap is rejected exactly when this
\* impact is below 0.5, so that a swap 8 above the minimum passes
C24_ImpactPerUnit == [][ImpactRule(R(5, 100))]_vars

\* a swap of 90 TON was accepted with an impact of exactly 0.5 and a swap of
\* 18 TON, 8 above the minimum of 10, has just been rejected
C24_Witness ==
  /\ ret.op = "analyzePacket"
  /\ SwapAnalyzed(ret, config["sandwich"])
  /\ Val(SwapOf(ret, config["sandwich"])).swapSize = R(18, 1)
  /\ config["sandwich"].minTargetSwapSize = R(10, 1)
  /\ ret.value = <<>>
  /\ \E i \in 1..Len(hist["sandwich"]) :
       /\ hist["sandwich"][i].details.targetSwapSize = R(90, 1)
       /\ hist["sandwich"][i].details.estimatedPriceImpact = R(1, 2)

(***************************************************************************)
(* C25.  The size of an arbitrage trade.                                   *)
(***************************************************************************)
\* C25: the buyAmount of every emitted arbitrage opportunity is at most 5 times
\* the base size of 10, that is at most 50
C25_BuyAmountAtMostFiveTimesBase ==
  \A i \in 1..Len(hist["arbitrage"]) :
    Le(hist["arbitrage"][i].details.buyAmount, R(50, 1))

(***************************************************************************)
(* C26.  The direction of an arbitrage trade.                              *)
(***************************************************************************)
\* the price that was compared for the venue dex when o was emitted
ComparedPrice(o, dex) ==
  IF dex = o.aux.observedDex THEN o.aux.observedPrice ELSE o.aux.cachedPrice

MeetsThresholds(o, c) ==
  /\ Ge(o.profitEstimate, c.minProfitEstimate)
  /\ Ge(o.confidence, c.minConfidence)
  /\ o.strategy = "arbitrage" =>
       o.profitEstimate =
         Sub(Sub(Sub(o.details.sellAmount, o.details.buyAmount), o.details.estimatedGas),
             c.gasBuffer)

\* C27: every opportunity a strategy appends while a packet is analyzed has a
\* profitEstimate >= minProfitEstimate and a confidence >= minConfidence of the
\* configuration in force, and the profitEstimate of an arbitrage opportunity
\* is sellAmount - buyAmount - estimatedGas - gasBuffer
C27_ThresholdsAtEmission ==
  [][ret'.op = "analyzePacket" =>
       \A i \in 1..Len(ret'.value) :
         MeetsThresholds(ret'.value[i], config[ret'.value[i].strategy])]_vars

(***************************************************************************)
(* C28.  The confidence of an arbitrage opportunity.                       *)
(***************************************************************************)
\* 0.7 * min(priceDifferencePercent / 5, 1)
\*   + 0.3 * min(estimatedProfit / (minProfitEstimate * 10), 1)
Blend(priceDifferencePercent, estimatedProfit, minProfitEstimate) ==
  Add(Mul(R(7, 10), MathMin(Div(priceDifferencePercent, R(5, 1)), One)),
      Mul(R(3, 10),
          MathMin(Div(estimatedProfit, Mul(minProfitEstimate, R(10, 1))), One)))

\* the confidence of the arbitrage opportunity o, computed under the
\* configuration c, is the blend, and a number of [0, 1] when
\* estimatedProfit >= minProfitEstimate >= 0
ConfidenceIsBlend(o, c) ==
  /\ o.confidence = Blend(o.details.priceDifferencePercent, o.details.estimatedProfit,
                          c.minProfitEstimate)
  /\ (Ge(o.details.estimatedProfit, c.minProfitEstimate) /\ Ge(c.minProfitEstimate, Zero))
       => /\ ~IsNaN(o.confidence)
          /\ Ge(o.confidence, Zero)
          /\ Le(o.confidence, One)

\* C28: the confidence calculateConfidence gives an arbitrage opportunity is
\* 0.7 * min(priceDifferencePercent / 5, 1) + 0.3 * min(estimatedProfit /
\* (minProfitEstimate * 10), 1), and it is a number of [0, 1] whenever
\* estimatedProfit >= minProfitEstimate >= 0, minProfitEstimate = 0 included
C28_ConfidenceInUnitInterval ==
  [][ret'.op = "analyzePacket" =>
       \A i \in 1..Len(ret'.value) :
         ret'.value[i].strategy = "arbitrage" =>
           ConfidenceIsBlend(ret'.value[i], config["arbitrage"])]_vars

(***************************************************************************)
(* C29.  Decoding by trial of offsets.                                     *)
(***************************************************************************)
\* the field at the offset lies inside the payload and is a value v, 0 < v < 1e18
Plausible(fields, offset) ==
  fields[offset] # FieldShort /\ fields[offset] # FieldHuge /\ fields[offset] > 0

\* index i is the first of the list of offsets whose field is plausible
FirstPlausible(fields, offsets, i) ==
  /\ Plausible(fields, offsets[i])
  /\ \A j \in 1..(i - 1) : ~Plausible(fields, offsets[j])

\* the DeDust transaction of the packet, when the packet is a list of one
IsArbDecode(r) ==
  /\ r.op = "analyzePacket"
  /\ ~r.arg[1].data.falsy
  /\ IsSome(r.arg[1].data.transactions)
  /\ Len(Val(r.arg[1].data.transactions)) = 1
  /\ IsSome(Val(r.arg[1].data.transactions)[1].outMsg)

\* the swap of the packet, when the packet is one swap
IsSwapDecode(r) ==
  /\ r.op = "analyzePacket"
  /\ ~r.arg[1].data.falsy
  /\ IsSome(r.arg[1].data.outMsg)
  /\ Val(r.arg[1].data.outMsg).swapOp

\* C29: after a swap op code the offsets are tried in the order of their list,
\* [24,32,40,48,56,64] for a price and [8,16,24,32] for the size of a swap, and
\* the value accepted is the one at the first offset whose field lies inside
\* the payload and is a value v with 0 < v < 1e18: the price written to the
\* cache, and the size of the swap of the opportunity emitted, are that value
C29_FirstPlausibleOffset ==
  [][/\ IsArbDecode(ret') =>
          \A i \in 1..Len(ArbOffsets) :
            \A f \in {Val(Val(ret'.arg[1].data.transactions)[1].outMsg).fields} :
              FirstPlausible(f, ArbOffsets, i) =>
                /\ IsSome(cache'["DeDust"]["TON/USDT"])
                /\ Val(cache'["DeDust"]["TON/USDT"]).price = R(f[ArbOffsets[i]], 1000)
     /\ IsSwapDecode(ret') =>
          \A i \in 1..Len(SandwichOffsets) :
            \A f \in {Val(ret'.arg[1].data.outMsg).fields} :
              FirstPlausible(f, SandwichOffsets, i) =>
                /\ Len(SandwichOut(ret')) = 1
                /\ SandwichOut(ret')[1].details.targetSwapSize
                     = R(f[SandwichOffsets[i]], 1000000)]_vars

\* the price 0.51 at offset 40 was accepted after a zero and a value of 1e18 or
\* more, and the swap of 100 TON at offset 16 has just been accepted although
\* offset 24 holds 200 TON
C29_Witness ==
  /\ IsSwapDecode(ret)
  /\ Val(ret.arg[1].data.outMsg).fields[8] = FieldHuge
  /\ Val(ret.arg[1].data.outMsg).fields[24] = 200000000
  /\ Len(SandwichOut(ret)) = 1
  /\ SandwichOut(ret)[1].details.targetSwapSize = R(100, 1)
  /\ IsSome(cache["DeDust"]["TON/USDT"])
  /\ Val(cache["DeDust"]["TON/USDT"]).price = R(51, 100)

(***************************************************************************)
(* C30.  The bookkeeping of reconnections.                                 *)
(***************************************************************************)
\* reconnect() is called in this step while the retries are used up
ReconnectsExhausted ==
  /\ stream.retryCount >= maxRetries
  /\ \/ ret'.op = "onError"
     \/ ret'.op = "onStatus" /\ ret'.arg # Some(0)
     \/ ret'.op = "onTimeout" /\ ~ret'.arg[1].periodic /\ ret'.threw

\* C30: retryCount is between 0 and maxRetries, every pending reconnection
\* timeout has a delay of at most 60000 ms, and at most one is pending; data
\* resets retryCount to 0; a reconnection when the retries are used up leaves
\* retryCount as it is and sets the periodic timeout of 60000 ms, and when that
\* timeout fires the handler starts over with its first retry
C30_ReconnectBookkeeping ==
  /\ [](/\ stream.retryCount \in 0..maxRetries
        /\ \A t \in stream.timeouts : Le(t.delay, R(60000, 1))
        /\ Cardinality(stream.timeouts) <= 1
        /\ \A t \in stream.timeouts : stream.reconnectionTimer = Some(t.id))
  /\ [][/\ ret'.op = "onData" => stream'.retryCount = 0
        /\ ReconnectsExhausted =>
             /\ stream'.retryCount = stream.retryCount
             /\ \E t \in stream'.timeouts :
                  t.periodic /\ t.delay = R(60000, 1)
        /\ (ret'.op = "onTimeout" /\ ret'.arg[1].periodic) =>
             /\ stream'.retryCount = 1
             /\ \E t \in stream'.timeouts : ~t.periodic]_vars

\* the retries were used up and the periodic timeout has just fired: the
\* handler is at its first retry again
C30_Witness ==
  /\ ret.op = "onTimeout"
  /\ ret.arg[1].periodic
  /\ stream.retryCount = 1
  /\ Cardinality(stream.timeouts) = 1

(***************************************************************************)
(* C31.  One packet, one analysis.                                         *)
(***************************************************************************)
\* two opportunities that differ by their id at most
SameDetection(a, b) == [a EXCEPT !.id = 0] = [b EXCEPT !.id = 0]

\* the opportunities this step added to latestOpportunities
NewlyDetected == SubSeq(latest', Len(latest) + 1, Len(latest'))

\* C31: processMempoolPacket gives a packet to analyzePacket at most once,
\* however many transactions of the packet are new, and no two opportunities a
\* packet produces are the same detection
C31_AnalyzedAtMostOnce ==
  [][ret'.op = "onData" =>
       /\ ret'.calls <= 1
       /\ \A i, j \in 1..Len(NewlyDetected) :
            i # j => ~SameDetection(NewlyDetected[i], NewlyDetected[j])]_vars

(***************************************************************************)
(* C32.  Deduplication.                                                    *)
(***************************************************************************)
\* the transactions processMempoolPacket extracts from the datum of ret'
ExtractedOf(r) ==
  IF r.op = "onData" /\ Val(r.arg).datum.serverTs /\ ~Val(r.arg).datum.payload.falsy
  THEN ExtractTransactionsFromPacket(Packet("p", now, None, Val(r.arg).datum.payload))
  ELSE <<>>

\* the key of the transaction was in processedTransactions before the step
AlreadyProcessed(tx) == ~tx.null /\ SeqContains(processed, TxHash(tx))

\* the arbitrage strategy wrote the price of the pair at the venue in this
\* step: the entry carries the time of the step and did not before
PriceWritten(dex, pair) ==
  /\ IsSome(cache'[dex][pair])
  /\ Val(cache'[dex][pair]).timestamp = now
  /\ ~IsSome(cache[dex][pair]) \/ Val(cache[dex][pair]).timestamp < now

\* C32: a packet all of whose transactions have their keys in the processed
\* set causes no analyzePacket call and leaves the store as it is; and a
\* transaction whose key is in the processed set is not analyzed by the
\* strategies again, whatever else the packet carries: the arbitrage strategy
\* writes no price for it
C32_ProcessedNeverAnalyzedAgain ==
  [][\A txs \in {ExtractedOf(ret')} :
       /\ (txs # <<>> /\ \A i \in 1..Len(txs) : AlreadyProcessed(txs[i])) =>
            ret'.calls = 0 /\ store' = store
       /\ \A i \in 1..Len(txs) :
            (AlreadyProcessed(txs[i]) /\ IsDexTransaction(txs[i])) =>
              \A info \in {ExtractDexInfo(txs[i], Zero)} :
                IsSome(info) => ~PriceWritten(Val(info).dex, Val(info).tokenPair)]_vars

(***************************************************************************)
(* C33.  The size of the set of processed keys.                            *)
(***************************************************************************)
\* the keys of processed followed by the new keys of the transactions, in the
\* order processMempoolPacket meets them, up to the first null entry
RECURSIVE KeysMet(_, _)
KeysMet(keys, txs) ==
  IF txs = <<>> \/ Head(txs).null THEN keys
  ELSE IF SeqContains(keys, TxHash(Head(txs))) THEN KeysMet(keys, Tail(txs))
  ELSE KeysMet(Append(keys, TxHash(Head(txs))), Tail(txs))

\* the last n entries of a sequence
LastEntries(seq, n) == IF Len(seq) <= n THEN seq ELSE SubSeq(seq, Len(seq) - n + 1, Len(seq))

\* C33: after every call of processMempoolPacket, whatever the packet holds,
\* processedTransactions holds at most the limit of keys (1000 in the program,
\* SmallProcessedLimit here), and they are the keys inserted last
C33_ProcessedSetBounded ==
  [][ret'.op = "onData" =>
       /\ Len(processed') <= SmallProcessedLimit
       /\ processed' = LastEntries(KeysMet(processed, ExtractedOf(ret')),
                                   SmallProcessedLimit)]_vars

(***************************************************************************)
(* C34.  The backoff across the failures of a subscription.                *)
(***************************************************************************)
\* the timeout the handler h holds as its reconnectionTimer
ReconnectionTimeouts(h) == {t \in h.timeouts : h.reconnectionTimer = Some(t.id)}

\* the delay the k-th failure in a row is followed by: the backoff delay of the
\* k-th retry with a jitter between 0.85 and 1.15, or the periodic minute
EscalatedDelay(t, k) ==
  IF k <= maxRetries
  THEN /\ ~t.periodic
       /\ Le(BackoffDelay(k, Zero), t.delay)
       /\ Le(t.delay, BackoffDelay(k, One))
  ELSE t.periodic /\ t.delay = R(periodicRetryDelay, 1)

\* C34: when the error event of a stream is the k-th failure of the
\* subscription in a row, with no datum in between, the reconnection it
\* schedules has the delay of the k-th retry, 5000 * 1.5^(k-1) ms up to the
\* jitter and the cap of 60000 ms, also when the failing stream is one a
\* reconnection created
C34_BackoffEscalatesAcrossFailures ==
  [][ret'.op = "onStreamError" =>
       \A i \in {Val(ret'.arg)} :
         /\ ReconnectionTimeouts(subscription'.streams[i].handler) # {}
         /\ \A t \in ReconnectionTimeouts(subscription'.streams[i].handler) :
              EscalatedDelay(t, subscription'.failures)]_vars

(***************************************************************************)
(* C35.  Stopping a subscription.                                          *)
(***************************************************************************)
\* the subscription has got a stream and is not registered: it was stopped
Stopped == ~IsSome(subscription.registered) /\ subscription.streams # <<>>

\* C35: once stopSubscription has returned true or stopAllSubscriptions has
\* returned, no stream of the subscription is open, no reconnection timeout
\* and no health check of its handlers is pending, and no stream of it hands a
\* packet to processMempoolPacket, also when a reconnection had created the
\* stream before the subscription was stopped
C35_StopEndsTheSubscription ==
  /\ [](Stopped =>
          \A i \in 1..Len(subscription.streams) :
            /\ subscription.streams[i].state # "open"
            /\ subscription.streams[i].handler.timeouts = {}
            /\ ~subscription.streams[i].handler.pingTimer)
  /\ [][ret'.op = "onData" => ~Stopped]_vars

(***************************************************************************)
(* C36.  One live stream for a subscription.                               *)
(***************************************************************************)
\* C36: at no time are two streams of the subscription open, whatever the
\* order of the data, error, status and health check events and of the
\* reconnection timeouts, and startSubscription of the registered id creates
\* no stream
C36_OneLiveStream ==
  /\ [](Cardinality(LiveStreams(subscription)) <= 1)
  /\ [][(ret'.op = "startSubscription" /\ IsSome(subscription.registered)) =>
          subscription' = subscription]_vars

(***************************************************************************)
(* C37.  The placeholder of the sandwich strategy.                         *)
(***************************************************************************)
\* C37: whatever numbers the configuration of the sandwich strategy holds, no
\* opportunity analyzePacket returns was made from the placeholder that
\* extractSwapDetails substitutes when it finds no swap details
C37_PlaceholderNeverEmits ==
  [][ret'.op = "analyzePacket" =>
       \A i \in 1..Len(SandwichOut(ret')) : ~SandwichOut(ret')[i].aux.fallback]_vars

====
